---- MODULE Spec2Model ----
(***************************************************************************)
(* Model of the transactional sale posting (crearDetalleVenta), of the     *)
(* bearer-token / role gate (autenticarToken, verificarRol), of the        *)
(* Inventario functions (actualizarInventario with a row lock and with a   *)
(* version, transferStock) and of the role management service (asignarRol, *)
(* removerRol, sincronizarRoles) documented in references/transactions.md. *)
(*                                                                         *)
(* Money is held in thousandths of the currency unit (mills), so that the  *)
(* source's toFixed(2) rounding is a real operation: 5.00 is 5000 and one  *)
(* cent is 10.  An optional field (undefined / null in the source) is the  *)
(* empty tuple Null; a present value v is <<v>>.  A falsy id or quantity   *)
(* (undefined, null, 0) is 0.                                              *)
(***************************************************************************)
EXTENDS Integers, Sequences, FiniteSets, TLC

VARIABLES
    \* ---- relational store (sale posting) ----
    productos,        \* Producto table: id -> [precio_minorista, stock]
    ventas,           \* Venta table, committed: id -> total
    detalles,         \* DetalleVenta rows; field tx: 0 committed, p written under p's open transaction
    movimientos,      \* Movimiento rows; field tx as above
    nextMovId,        \* AUTO_INCREMENT of Movimiento
    lockVenta,        \* Venta row lock (SELECT ... FOR UPDATE): id -> 0 free, p held by p's transaction
    ventaPend,        \* p -> Null, or <<id, total>>: the venta.save written under p's transaction
    \* ---- one crearDetalleVenta call per caller ----
    pc,               \* p -> position in crearDetalleVenta
    detalleVentaData, \* p -> [esArray, items]: the argument, items mutated in place by the loop
    productoMap,      \* p -> the products loaded by the batch read
    idx,              \* p -> index of the next item of the for loop
    total_subtotales, \* p -> running total
    ventaLeida,       \* p -> Null, or <<id, total>>: the Venta instance read under the lock
    resultado,        \* p -> "pendiente", "ok" or the message of the error thrown
    detalleVentaCreado, \* p -> the rows returned by bulkCreate
    \* ---- bookkeeping of the run ----
    ventas0,          \* the Venta totals before any call
    entrada,          \* p -> the argument as the caller passed it (before the loop mutates it)
    antes,            \* p -> [ventas, movId]: the Venta totals and the Movimiento counter when p's call started
    concurrente,      \* TRUE: calls overlap; FALSE: one call at a time
    llamadas,         \* p -> the store calls p's call has awaited, in order: [op, ok]
    \* ---- identity store and tokens ----
    usuariosRoles,    \* usuarios_roles rows, committed: [usuario_id, rol_id, por]
    tokens,           \* payloads signed by login so far
    logins,           \* number of logins so far
    cambios,          \* number of role management calls so far
    adminRes,         \* outcome of the last role management call
    \* ---- one HTTP request per r ----
    rpc,              \* r -> position in the middleware chain
    header,           \* r -> Null, or <<token>>: the bearer token of the Authorization header
    usuario,          \* r -> Null, or <<payload>>: req.usuario
    permitidos,       \* r -> rolesPermitidos of the guard that is running
    restantes,        \* r -> number of role guards still ahead on the route
    res,              \* r -> Null, or <<[status, code]>>: the response sent
    traza,            \* r -> what each middleware did, in order: "next" or the code it answered
    consultas,        \* r -> number of UsuarioRol.findAll issued by the request's guards
    decisiones,       \* r -> number of guard decisions taken
    primera,          \* r -> Null, or <<roles>>: the role set the first decision used
    ultima,           \* r -> Null, or <<[roles, permitidos, permitido, almacen]>>: the last decision
    vistos,           \* r -> the subject's role sets the store has held since the request arrived
    \* ---- Inventario table and one inventory call per caller ----
    inventario,       \* Inventario table, committed: id -> [id, producto_id, cantidad, version]
    lockInv,          \* Inventario row lock: id -> 0 free, p held by p's transaction
    ipc,              \* p -> position in the inventory function p is running
    iarg,             \* p -> the arguments of p's call
    ileido,           \* p -> Null, or <<row>>: the Inventario instance p's call holds
    ipend,            \* p -> Null, or <<row>>: the row saved under p's open transaction
    ires,             \* p -> "pendiente", "ok" or the message of the error thrown
    \* ---- one role management call per caller ----
    apc,              \* p -> position in the role management function p is running
    aarg,             \* p -> the arguments of p's call
    aborradas,        \* p -> the usuarios_roles rows deleted under p's open transaction
    acreadas,         \* p -> the usuarios_roles rows inserted under p's open transaction
    ares              \* p -> "pendiente", "ok" or the message of the error thrown

saleVars == <<productos, ventas, detalles, movimientos, nextMovId, lockVenta, ventaPend,
              pc, detalleVentaData, productoMap, idx, total_subtotales, ventaLeida,
              resultado, detalleVentaCreado, ventas0, entrada, antes, concurrente,
              llamadas>>

authVars == <<usuariosRoles, tokens, logins, cambios, adminRes, rpc, header, usuario,
              permitidos, restantes, res, traza, consultas, decisiones, primera, ultima, vistos>>

invVars == <<inventario, lockInv, ipc, iarg, ileido, ipend, ires>>

admVars == <<apc, aarg, aborradas, acreadas, ares>>

vars == <<saleVars, authVars, invVars, admVars>>

----------------------------------------------------------------------------
(* Bounds and input domains *)

MaxLines == 2
MaxGuards == 2
MaxLogins == 1
MaxCambios == 2

Procs == {1, 2}

Null == <<>>
Some(v) == <<v>>
Val(o) == o[1]

ProductoIds == {1}
VentaIds == {1, 2}
TotalesIniciales == {0, 7000}

\* A quantity that is a text with no numeric value ("abc") is a negative marker:
\* it is truthy and Number() of it is NaN.  Numeric quantities are 0 or more.
CantidadesTexto == {-1}

LineaBase ==
    [producto_id |-> 1, cantidad |-> 2, almacen_id |-> 1, venta_id |-> 1,
     precio_unitario |-> Null, sub_total |-> Null, movimiento_id |-> Null]

\* Lines that differ from LineaBase in one field.
LineasDesviadas ==
    { [LineaBase EXCEPT !.producto_id = 0],
      [LineaBase EXCEPT !.producto_id = 9],
      [LineaBase EXCEPT !.cantidad = 0],
      [LineaBase EXCEPT !.cantidad = 1],
      [LineaBase EXCEPT !.cantidad = CHOOSE c \in CantidadesTexto : TRUE],
      [LineaBase EXCEPT !.precio_unitario = Some(1254)],
      [LineaBase EXCEPT !.precio_unitario = Some(0)],
      [LineaBase EXCEPT !.sub_total = Some(3337)],
      [LineaBase EXCEPT !.venta_id = 0],
      [LineaBase EXCEPT !.venta_id = 2],
      [LineaBase EXCEPT !.venta_id = 3] }

\* Batches of n lines with at most one line off the base line.
LotesDe(n, desviadas) ==
    { [i \in 1..n |-> LineaBase] } \cup
    { [i \in 1..n |-> IF i = k THEN d ELSE LineaBase] : k \in 1..n, d \in desviadas }

NoArray == [esArray |-> FALSE, items |-> <<>>]
Lote(items) == [esArray |-> TRUE, items |-> items]

LotesSerie ==
    {NoArray} \cup { Lote(s) : s \in UNION { LotesDe(n, LineasDesviadas) : n \in 0..MaxLines } }

\* The narrow domain: batches that pass the validation, on order 1 or 2, all
\* lines but the first being the base line.
LotesConcurrentes ==
    { Lote([i \in 1..n |-> IF i = 1 THEN d ELSE LineaBase]) :
          n \in 1..MaxLines,
          d \in { LineaBase, [LineaBase EXCEPT !.cantidad = 1], [LineaBase EXCEPT !.venta_id = 2] } }

\* Overlapping calls draw from the narrow domain; of calls made one at a time,
\* the first draws from the wide domain and the ones after it from the narrow one.
Entradas(p) == IF concurrente \/ p # 1 THEN LotesConcurrentes ELSE LotesSerie

----------------------------------------------------------------------------
(* Pure helpers of crearDetalleVenta *)

\* Number.prototype.toFixed(2) followed by parseFloat, on decimal values: round to
\* the nearest cent, a half away from zero.
ToFixed2(x) ==
    IF x >= 0 THEN ((x + 5) \div 10) * 10 ELSE 0 - (((0 - x) + 5) \div 10) * 10

\* Number(cantidad) is NaN.
EsNaN(cantidad) == cantidad \in CantidadesTexto

\* The validation at the head of the loop body: the message thrown, or "ok".
\* !cantidad || Number(cantidad) <= 0: a comparison with NaN is false.
ValidarItem(item, pmap) ==
    IF item.producto_id = 0 THEN "producto_id es obligatorio"
    ELSE IF item.cantidad = 0 \/ (~EsNaN(item.cantidad) /\ item.cantidad <= 0)
      THEN "cantidad debe ser > 0"
    ELSE IF item.producto_id \notin DOMAIN pmap THEN "Producto no encontrado"
    ELSE "ok"

\* Mutant of PrecioUnitario: a price of 0 is taken as no price (price || list price).
PrecioUnitarioSiNoEsCero(item, producto) ==
    IF item.precio_unitario = Null \/ item.precio_unitario = Some(0)
      THEN producto.precio_minorista
      ELSE Val(item.precio_unitario)

\* precio_unitario === undefined || === null: the list price; else the caller's.
PrecioUnitario(item, producto) ==
    IF item.precio_unitario = Null THEN producto.precio_minorista
    ELSE Val(item.precio_unitario)

\* Mutant of SubTotal: the product is stored without the toFixed(2) rounding.
SubTotalSinRedondeo(item, precio) ==
    IF item.sub_total = Null THEN precio * item.cantidad
    ELSE Val(item.sub_total)

SubTotal(item, precio) ==
    IF item.sub_total = Null THEN ToFixed2(precio * item.cantidad)
    ELSE ToFixed2(Val(item.sub_total))

Acumular(total, sub_total) == ToFixed2(total + sub_total)

\* Mutant of DebeActualizar: only a total of 0 is overwritten.
DebeActualizarSoloCero(currentTotal, total) == currentTotal = 0

\* Business rule: update total if 0 or less than sum of subtotals.
DebeActualizar(currentTotal, total) == currentTotal = 0 \/ currentTotal < total

\* The transaction handle each write is issued under.
\* Mutant of TxMovimiento: crearMovimiento is called without the transaction.
SinTransaccion(t) == 0

TxMovimiento(t) == t
TxDetalle(t) == t
TxVenta(t) == t

\* Mutant of DatosMovimiento: the movement is recorded as an entry.
DatosMovimientoDeEntrada(item, precio) ==
    [tipo |-> "entrada", producto_id |-> item.producto_id,
     almacen_id |-> item.almacen_id, cantidad |-> item.cantidad,
     precio_unitario |-> precio, venta_id |-> item.venta_id]

\* The object passed to crearMovimiento; descripcion carries item.venta_id.
DatosMovimiento(item, precio) ==
    [tipo |-> "salida", producto_id |-> item.producto_id,
     almacen_id |-> item.almacen_id, cantidad |-> item.cantidad,
     precio_unitario |-> precio, venta_id |-> item.venta_id]

\* The Producto table after the loop body has handled one line, stock descended by the
\* line's quantity: what the loop body does NOT do (kept for comparison).
ProductosConSalida(prods, item) ==
    [prods EXCEPT ![item.producto_id].stock = @ - item.cantidad]

\* The Producto table after the loop body has handled one line: the body assigns to the
\* line and inserts a movement, and holds no statement that writes a Producto.
ProductosTrasItem(prods, item) == prods

\* crearMovimiento(data, transaction): inserts one Movimiento row and returns it.
crearMovimiento(data, t, id, p) ==
    [id |-> id, tipo |-> data.tipo, producto_id |-> data.producto_id,
     almacen_id |-> data.almacen_id, cantidad |-> data.cantidad,
     precio_unitario |-> data.precio_unitario, venta_id |-> data.venta_id,
     tx |-> t, por |-> p]

----------------------------------------------------------------------------
(* State after construction *)

\* An entry of llamadas: a store call that resolved, or one that rejected.
Hecho(op) == [op |-> op, ok |-> TRUE]
Rechazado(op) == [op |-> op, ok |-> FALSE]

Pendiente == [estado |-> "pendiente", mensaje |-> "", ref |-> 0]
Exito == [estado |-> "ok", mensaje |-> "", ref |-> 0]
Fallo(mensaje, ref) == [estado |-> "error", mensaje |-> mensaje, ref |-> ref]

\* The Producto rows the store starts with.
Catalogo == [i \in ProductoIds |-> [precio_minorista |-> 5000, stock |-> 10]]

InitSale(modo, totales) ==
    /\ productos = Catalogo
    /\ \E t \in totales : ventas = [v \in VentaIds |-> IF v = 1 THEN t ELSE 0]
    /\ ventas0 = ventas
    /\ detalles = {}
    /\ movimientos = {}
    /\ nextMovId = 1
    /\ lockVenta = [v \in VentaIds |-> 0]
    /\ ventaPend = [p \in Procs |-> Null]
    /\ pc = [p \in Procs |-> "idle"]
    /\ detalleVentaData = [p \in Procs |-> NoArray]
    /\ productoMap = [p \in Procs |-> <<>>]
    /\ idx = [p \in Procs |-> 0]
    /\ total_subtotales = [p \in Procs |-> 0]
    /\ ventaLeida = [p \in Procs |-> Null]
    /\ resultado = [p \in Procs |-> Pendiente]
    /\ detalleVentaCreado = [p \in Procs |-> {}]
    /\ entrada = [p \in Procs |-> NoArray]
    /\ antes = [p \in Procs |-> [ventas |-> ventas, movId |-> 1]]
    /\ concurrente = modo
    /\ llamadas = [p \in Procs |-> <<>>]


----------------------------------------------------------------------------
(* crearDetalleVenta, one action per stretch between two awaits *)

Items(p) == detalleVentaData[p].items

\* const ventaId = detalleVentaData[0].venta_id
VentaId(p) == Items(p)[1].venta_id

\* Mutant of SinTx: the rollback leaves the rows in place.
ConservarFilas(rows, t) == rows

\* Mutant of Liberar: the row locks outlive the transaction.
NoLiberar(t) == lockVenta

\* Rows that transaction t can no longer undo are those with tx = 0.
SinTx(rows, t) == { r \in rows : r.tx # t }
Confirmar(rows, t) == { IF r.tx = t THEN [r EXCEPT !.tx = 0] ELSE r : r \in rows }
Liberar(t) == [v \in VentaIds |-> IF lockVenta[v] = t THEN 0 ELSE lockVenta[v]]

\* Mutant of LoteRechazado: only the Array.isArray test is made.
LoteRechazadoSiNoEsArray(data) == ~data.esArray

\* !Array.isArray(detalleVentaData) || detalleVentaData.length === 0
LoteRechazado(data) == ~data.esArray \/ Len(data.items) = 0

\* Entry: the argument check, then sequelize.transaction().
Llamar(p, data) ==
    /\ pc[p] = "idle"
    /\ concurrente \/ \A q \in Procs : q < p => pc[q] = "done"
    /\ detalleVentaData' = [detalleVentaData EXCEPT ![p] = data]
    /\ entrada' = [entrada EXCEPT ![p] = data]
    /\ antes' = [antes EXCEPT ![p] = [ventas |-> ventas, movId |-> nextMovId]]
    /\ IF LoteRechazado(data)
         THEN /\ resultado' = [resultado EXCEPT ![p] = Fallo("detalleVentaData debe ser un array no vacio", 0)]
              /\ pc' = [pc EXCEPT ![p] = "done"]
              /\ UNCHANGED llamadas
         ELSE /\ pc' = [pc EXCEPT ![p] = "cargar"]
              /\ llamadas' = [llamadas EXCEPT ![p] = Append(@, Hecho("transaction"))]
              /\ UNCHANGED resultado
    /\ UNCHANGED <<productos, ventas, detalles, movimientos, nextMovId, lockVenta, ventaPend,
                   productoMap, idx, total_subtotales, ventaLeida, detalleVentaCreado,
                   ventas0, concurrente, authVars, invVars, admVars>>

\* Producto.findAll({ where: { id: productoIds } }) and the Map built from it.
CargarProductos(p) ==
    /\ pc[p] = "cargar"
    /\ LET productoIds == { Items(p)[i].producto_id : i \in 1..Len(Items(p)) }
       IN  productoMap' = [productoMap EXCEPT ![p] =
                              [i \in productoIds \cap DOMAIN productos |-> productos[i]]]
    /\ idx' = [idx EXCEPT ![p] = 1]
    /\ total_subtotales' = [total_subtotales EXCEPT ![p] = 0]
    /\ pc' = [pc EXCEPT ![p] = "item"]
    /\ llamadas' = [llamadas EXCEPT ![p] = Append(@, Hecho("Producto.findAll"))]
    /\ UNCHANGED <<productos, ventas, detalles, movimientos, nextMovId, lockVenta, ventaPend,
                   detalleVentaData, ventaLeida, resultado, detalleVentaCreado,
                   ventas0, entrada, antes, concurrente, authVars, invVars, admVars>>

\* One iteration of the for loop: validation, derived fields, crearMovimiento.
ProcesarItem(p) ==
    /\ pc[p] = "item"
    /\ LET item == Items(p)[idx[p]]
           msg == ValidarItem(item, productoMap[p])
       IN  IF msg # "ok"
             THEN /\ resultado' = [resultado EXCEPT ![p] = Fallo(msg, item.producto_id)]
                  /\ pc' = [pc EXCEPT ![p] = "rollback"]
                  /\ UNCHANGED <<productos, movimientos, nextMovId, detalleVentaData, idx,
                                 total_subtotales, llamadas>>
             ELSE IF EsNaN(item.cantidad)
               THEN \* the text passed the validation: crearMovimiento is called with it
                    \* and the store, whose quantity column is numeric, rejects it
                    /\ resultado' = [resultado EXCEPT ![p] = Fallo("StoreError", 0)]
                    /\ pc' = [pc EXCEPT ![p] = "rollback"]
                    /\ llamadas' = [llamadas EXCEPT ![p] = Append(@, Rechazado("crearMovimiento"))]
                    /\ UNCHANGED <<productos, movimientos, nextMovId, detalleVentaData, idx,
                                   total_subtotales>>
               ELSE
                  LET precio == PrecioUnitario(item, productoMap[p][item.producto_id])
                      sub == SubTotal(item, precio)
                      mov == crearMovimiento(DatosMovimiento(item, precio),
                                             TxMovimiento(p), nextMovId, p)
                  IN  /\ total_subtotales' = [total_subtotales EXCEPT ![p] = Acumular(@, sub)]
                      /\ movimientos' = movimientos \cup {mov}
                      /\ nextMovId' = nextMovId + 1
                      /\ detalleVentaData' = [detalleVentaData EXCEPT ![p].items[idx[p]] =
                             [item EXCEPT !.precio_unitario = Some(precio),
                                          !.sub_total = Some(sub),
                                          !.movimiento_id = Some(mov.id)]]
                      /\ idx' = [idx EXCEPT ![p] = @ + 1]
                      /\ pc' = [pc EXCEPT ![p] = IF idx[p] = Len(Items(p)) THEN "bulk" ELSE "item"]
                      /\ llamadas' = [llamadas EXCEPT ![p] = Append(@, Hecho("crearMovimiento"))]
                      /\ productos' = ProductosTrasItem(productos, item)
                      /\ UNCHANGED resultado
    /\ UNCHANGED <<ventas, detalles, lockVenta, ventaPend, productoMap, ventaLeida,
                   detalleVentaCreado, ventas0, entrada, antes, concurrente, authVars, invVars, admVars>>

\* DetalleVenta.bulkCreate(detalleVentaData, { transaction }).
BulkCreate(p) ==
    /\ pc[p] = "bulk"
    /\ LET rows == { [producto_id |-> Items(p)[i].producto_id, cantidad |-> Items(p)[i].cantidad,
                      almacen_id |-> Items(p)[i].almacen_id, venta_id |-> Items(p)[i].venta_id,
                      precio_unitario |-> Items(p)[i].precio_unitario,
                      sub_total |-> Items(p)[i].sub_total,
                      movimiento_id |-> Items(p)[i].movimiento_id,
                      tx |-> TxDetalle(p), por |-> p] : i \in 1..Len(Items(p)) }
       IN  /\ detalles' = detalles \cup rows
           /\ detalleVentaCreado' = [detalleVentaCreado EXCEPT ![p] = rows]
    /\ pc' = [pc EXCEPT ![p] = "lock"]
    /\ llamadas' = [llamadas EXCEPT ![p] = Append(@, Hecho("DetalleVenta.bulkCreate"))]
    /\ UNCHANGED <<productos, ventas, movimientos, nextMovId, lockVenta, ventaPend,
                   detalleVentaData, productoMap, idx, total_subtotales, ventaLeida, resultado,
                   ventas0, entrada, antes, concurrente, authVars, invVars, admVars>>

\* The lock option of Venta.findOne: the read waits while another transaction holds the row.
\* Mutant of PuedeBloquear: the lock option is left out of Venta.findOne.
SinBloqueo(p, v) == TRUE

\* Mutant of PuedeBloquear: the lock is on the table, not on the row.
BloqueoDeTabla(p, v) == \A w \in VentaIds : lockVenta[w] \in {0, p}

PuedeBloquear(p, v) == lockVenta[v] \in {0, p}

\* The venta_id check, then Venta.findOne({ where: { id: ventaId }, transaction, lock }).
BuscarVenta(p) ==
    /\ pc[p] = "lock"
    /\ IF VentaId(p) = 0
         THEN /\ resultado' = [resultado EXCEPT ![p] = Fallo("venta_id es obligatorio", 0)]
              /\ pc' = [pc EXCEPT ![p] = "rollback"]
              /\ UNCHANGED <<lockVenta, ventaLeida, llamadas>>
         ELSE IF VentaId(p) \notin DOMAIN ventas
           THEN /\ resultado' = [resultado EXCEPT ![p] = Fallo("Venta no encontrada", VentaId(p))]
                /\ pc' = [pc EXCEPT ![p] = "rollback"]
                /\ llamadas' = [llamadas EXCEPT ![p] = Append(@, Hecho("Venta.findOne"))]
                /\ UNCHANGED <<lockVenta, ventaLeida>>
           ELSE /\ PuedeBloquear(p, VentaId(p))
                /\ lockVenta' = [lockVenta EXCEPT ![VentaId(p)] = p]
                /\ ventaLeida' = [ventaLeida EXCEPT ![p] = <<VentaId(p), ventas[VentaId(p)]>>]
                /\ pc' = [pc EXCEPT ![p] = "save"]
                /\ llamadas' = [llamadas EXCEPT ![p] = Append(@, Hecho("Venta.findOne"))]
                /\ UNCHANGED resultado
    /\ UNCHANGED <<productos, ventas, detalles, movimientos, nextMovId, ventaPend,
                   detalleVentaData, productoMap, idx, total_subtotales, detalleVentaCreado,
                   ventas0, entrada, antes, concurrente, authVars, invVars, admVars>>

\* currentTotal, the business rule and venta.save({ transaction }).
Reconciliar(p) ==
    /\ pc[p] = "save"
    /\ LET currentTotal == ventaLeida[p][2]
       IN  IF DebeActualizar(currentTotal, total_subtotales[p])
             THEN /\ llamadas' = [llamadas EXCEPT ![p] = Append(@, Hecho("venta.save"))]
                  /\ IF TxVenta(p) = 0
                       THEN /\ ventas' = [ventas EXCEPT ![ventaLeida[p][1]] = total_subtotales[p]]
                            /\ UNCHANGED ventaPend
                       ELSE /\ ventaPend' = [ventaPend EXCEPT ![p] =
                                                 <<ventaLeida[p][1], total_subtotales[p]>>]
                            /\ UNCHANGED ventas
             ELSE UNCHANGED <<ventas, ventaPend, llamadas>>
    /\ pc' = [pc EXCEPT ![p] = "commit"]
    /\ UNCHANGED <<productos, detalles, movimientos, nextMovId, lockVenta,
                   detalleVentaData, productoMap, idx, total_subtotales, ventaLeida, resultado,
                   detalleVentaCreado, ventas0, entrada, antes, concurrente, authVars, invVars, admVars>>

\* transaction.commit(); return detalleVentaCreado.
Commit(p) ==
    /\ pc[p] = "commit"
    /\ detalles' = Confirmar(detalles, p)
    /\ movimientos' = Confirmar(movimientos, p)
    /\ ventas' = IF ventaPend[p] = Null THEN ventas
                 ELSE [ventas EXCEPT ![ventaPend[p][1]] = ventaPend[p][2]]
    /\ ventaPend' = [ventaPend EXCEPT ![p] = Null]
    /\ lockVenta' = Liberar(p)
    /\ resultado' = [resultado EXCEPT ![p] = Exito]
    /\ pc' = [pc EXCEPT ![p] = "done"]
    /\ llamadas' = [llamadas EXCEPT ![p] = Append(@, Hecho("commit"))]
    /\ UNCHANGED <<productos, nextMovId, detalleVentaData, productoMap, idx, total_subtotales,
                   ventaLeida, detalleVentaCreado, ventas0, entrada, antes, concurrente, authVars, invVars, admVars>>

\* The store call awaited at each position of the try block.
LlamadaEn(posicion) ==
    CASE posicion = "cargar" -> "Producto.findAll"
      [] posicion = "item" -> "crearMovimiento"
      [] posicion = "bulk" -> "DetalleVenta.bulkCreate"
      [] posicion = "lock" -> "Venta.findOne"
      [] posicion = "save" -> "venta.save"
      [] posicion = "commit" -> "commit"

\* Venta.findOne waits for a row lock another transaction holds.
EsperaBloqueo(p) ==
    /\ pc[p] = "lock"
    /\ VentaId(p) \in DOMAIN ventas
    /\ ~PuedeBloquear(p, VentaId(p))

\* A store call of the try block rejects (connection lost, lock wait timeout, ...).
StoreError(p) ==
    /\ \/ pc[p] \in {"cargar", "bulk", "commit"}
       \/ pc[p] = "item" /\ ValidarItem(Items(p)[idx[p]], productoMap[p]) = "ok"
       \/ pc[p] = "lock" /\ VentaId(p) # 0
       \/ pc[p] = "save" /\ DebeActualizar(ventaLeida[p][2], total_subtotales[p])
    /\ resultado' = [resultado EXCEPT ![p] =
                        Fallo(IF EsperaBloqueo(p) THEN "LockTimeout" ELSE "StoreError", 0)]
    /\ llamadas' = [llamadas EXCEPT ![p] = Append(@, Rechazado(LlamadaEn(pc[p])))]
    /\ pc' = [pc EXCEPT ![p] = "rollback"]
    /\ UNCHANGED <<productos, ventas, detalles, movimientos, nextMovId, lockVenta, ventaPend,
                   detalleVentaData, productoMap, idx, total_subtotales, ventaLeida,
                   detalleVentaCreado, ventas0, entrada, antes, concurrente, authVars, invVars, admVars>>

\* catch: transaction.rollback(); throw error.
Rollback(p) ==
    /\ pc[p] = "rollback"
    /\ detalles' = SinTx(detalles, p)
    /\ movimientos' = SinTx(movimientos, p)
    /\ ventaPend' = [ventaPend EXCEPT ![p] = Null]
    /\ lockVenta' = Liberar(p)
    /\ pc' = [pc EXCEPT ![p] = "done"]
    /\ llamadas' = [llamadas EXCEPT ![p] = Append(@, Hecho("rollback"))]
    /\ UNCHANGED <<productos, ventas, nextMovId, detalleVentaData, productoMap, idx,
                   total_subtotales, ventaLeida, resultado, detalleVentaCreado,
                   ventas0, entrada, antes, concurrente, authVars, invVars, admVars>>

\* catch: transaction.rollback() rejects, and its rejection leaves the catch block
\* in place of the error caught.  The transaction is over all the same: the store
\* drops the uncommitted work and the row lock with the connection.
RollbackFalla(p) ==
    /\ pc[p] = "rollback"
    /\ detalles' = SinTx(detalles, p)
    /\ movimientos' = SinTx(movimientos, p)
    /\ ventaPend' = [ventaPend EXCEPT ![p] = Null]
    /\ lockVenta' = Liberar(p)
    /\ resultado' = [resultado EXCEPT ![p] = Fallo("RollbackError", 0)]
    /\ pc' = [pc EXCEPT ![p] = "done"]
    /\ llamadas' = [llamadas EXCEPT ![p] = Append(@, Rechazado("rollback"))]
    /\ UNCHANGED <<productos, ventas, nextMovId, detalleVentaData, productoMap, idx,
                   total_subtotales, ventaLeida, detalleVentaCreado,
                   ventas0, entrada, antes, concurrente, authVars, invVars, admVars>>

NextSale ==
    \E p \in Procs :
        \/ \E data \in Entradas(p) : Llamar(p, data)
        \/ CargarProductos(p)
        \/ ProcesarItem(p)
        \/ BulkCreate(p)
        \/ BuscarVenta(p)
        \/ Reconciliar(p)
        \/ Commit(p)
        \/ StoreError(p)
        \/ Rollback(p)
        \/ RollbackFalla(p)

\* The steps of a call that has begun its transaction: each is the settling of
\* the store call the function is awaiting.
Paso(p) ==
    \/ CargarProductos(p)
    \/ ProcesarItem(p)
    \/ BulkCreate(p)
    \/ BuscarVenta(p)
    \/ Reconciliar(p)
    \/ Commit(p)
    \/ StoreError(p)
    \/ Rollback(p)
    \/ RollbackFalla(p)

\* Batches of base lines on order 1, and one line on order 2.
LotesBloqueo ==
    { Lote([i \in 1..n |-> LineaBase]) : n \in 1..MaxLines } \cup
    { Lote(<<[LineaBase EXCEPT !.venta_id = 2]>>) }

NextBloqueo ==
    \E p \in Procs :
        \/ \E data \in LotesBloqueo : Llamar(p, data)
        \/ Paso(p)

----------------------------------------------------------------------------
(* Identity store, tokens and the middleware chain *)

Reqs == {1, 2}
UsuarioIds == {1}
RolIds == {1, 2}
\* The ids a role management call may name: those of the tables and one that is in neither.
UsuarioIdsPedidos == UsuarioIds \cup {7}
RolIdsPedidos == RolIds \cup {9}

\* roles.nombre
NombreDeRol(i) == IF i = 1 THEN "admin" ELSE "vendedor"

\* The guards the routes mount: verificarRol("admin"), verificarRol("admin", "gerente").
Permitidos == { {"admin"}, {"admin", "gerente"} }

\* UsuarioRol.findAll({ where: { usuario_id }, include: Rol }).map(ur => ur.rol.nombre)
RolesEn(almacen, usuario_id) ==
    { NombreDeRol(ur.rol_id) : ur \in { x \in almacen : x.usuario_id = usuario_id } }

RolesAsignados(usuario_id) == RolesEn(usuariosRoles, usuario_id)

\* generarToken({ id, username, rol }) as the tests sign it: no roles claim.
PayloadSinRoles == [id |-> 1, username |-> "u1", rol |-> "admin", roles |-> Null]

\* The payload login signs: roles[0] || "usuario" and the whole list.
PayloadDeLogin(usuario_id, roles) ==
    [id |-> usuario_id, username |-> "u1",
     rol |-> IF roles = {} THEN "usuario"
             ELSE NombreDeRol(CHOOSE i \in RolIds :
                      /\ NombreDeRol(i) \in roles
                      /\ \A j \in RolIds : NombreDeRol(j) \in roles => i <= j),
     roles |-> Some(roles)]

\* The bearer tokens a client can present: a string no key signed, a string
\* jwt.verify cannot read (it throws an error of its own, neither TokenExpiredError
\* nor JsonWebTokenError), or a signed payload that may have expired since.
TokensPosibles ==
    { [firma |-> f, expirado |-> FALSE, payload |-> PayloadSinRoles] :
          f \in {"invalida", "ilegible"} } \cup
    { [firma |-> "valida", expirado |-> e, payload |-> pl] :
          e \in BOOLEAN, pl \in tokens \cup {PayloadSinRoles} }

\* verificarToken: jwt.verify checks the signature, then the expiry.  The error
\* thrown is TOKEN_EXPIRED for TokenExpiredError, TOKEN_INVALID for
\* JsonWebTokenError, and any other error as it came (throw error).
verificarToken(token) ==
    IF token.firma = "ilegible" THEN [error |-> "Unexpected token", payload |-> token.payload]
    ELSE IF token.firma # "valida" THEN [error |-> "TOKEN_INVALID", payload |-> token.payload]
    ELSE IF token.expirado THEN [error |-> "TOKEN_EXPIRED", payload |-> token.payload]
    ELSE [error |-> "", payload |-> token.payload]

\* Mutant of YaResueltos: the guard looks the roles up on every check.
NuncaResueltos(u) == FALSE

\* if (!req.usuario.roles) is false: the roles are already on the request.
YaResueltos(u) == u.roles # Null

\* req.usuario.roles = rolesAsignados.map(...)
CachearRoles(u, roles) == [u EXCEPT !.roles = Some(roles)]

\* (req.usuario.roles || [])
RolesDe(u) == IF u.roles = Null THEN {} ELSE Val(u.roles)

\* Mutant of TienePermiso: every required role must be held.
TienePermisoTodos(roles, rolesPermitidos) == \A rol \in rolesPermitidos : rol \in roles

\* roles.some(rol => rolesPermitidos.includes(rol))
TienePermiso(roles, rolesPermitidos) == \E rol \in roles : rol \in rolesPermitidos

Respuesta(status, code) == Some([status |-> status, code |-> code])

\* Mutant of SinUsuario: the missing subject is only met inside the try block.
SinUsuarioEnElTry == Respuesta(500, "ROLE_VERIFICATION_ERROR")

\* if (!req.usuario): the answer of the guard's first check.
SinUsuario == Respuesta(401, "AUTHENTICATION_REQUIRED")

\* Mutant of TrasResponder: the return after the error response is missing, so the
\* middleware runs on to its next().
SinReturn(r) == IF restantes[r] <= 1 THEN "handler" ELSE "guard"

\* res.status(...).json(...); return;  Every error response of the two middlewares is
\* followed by a return: the chain stops there.
TrasResponder(r) == "fin"

\* Mutant of UsuarioTrasFallo: the failed lookup leaves an empty role list on the request.
UsuarioConRolesVacios(u) == CachearRoles(u, {})

\* req.usuario after the await of UsuarioRol.findAll has rejected: the assignment to
\* req.usuario.roles comes after the await and is skipped.
UsuarioTrasFallo(u) == u

\* Mutant of ReqUsuario: the resolved roles are kept per subject for the whole process,
\* so a guard finds the role list another request of the same subject has resolved.
UsuarioDelProceso(r) ==
    IF usuario[r] = Null \/ YaResueltos(Val(usuario[r])) THEN usuario[r]
    ELSE IF \E q \in Reqs : /\ q # r /\ usuario[q] # Null
                             /\ Val(usuario[q]).id = Val(usuario[r]).id
                             /\ YaResueltos(Val(usuario[q]))
      THEN usuario[CHOOSE q \in Reqs : /\ q # r /\ usuario[q] # Null
                                       /\ Val(usuario[q]).id = Val(usuario[r]).id
                                       /\ YaResueltos(Val(usuario[q]))]
      ELSE usuario[r]

\* req.usuario as a guard reads it: a property of the request object of this request,
\* holding the payload object that verificarToken returned for this request.
ReqUsuario(r) == usuario[r]

\* A usuarios_roles row; por tells the rows of one pair apart: 0 for a row of the
\* initial store or of a call that ran alone, p for a row created by caller p.
Fila(usuario_id, rol_id, por) == [usuario_id |-> usuario_id, rol_id |-> rol_id, por |-> por]

\* where: { usuario_id, rol_id }
FilasDelPar(almacen, usuario_id, rol_id) ==
    { x \in almacen : x.usuario_id = usuario_id /\ x.rol_id = rol_id }

\* where: { usuario_id }
FilasDelUsuario(almacen, usuario_id) == { x \in almacen : x.usuario_id = usuario_id }

InitAuth(activas) ==
    /\ usuariosRoles = { Fila(1, 2, 0) }
    /\ tokens = {}
    /\ logins = 0
    /\ cambios = 0
    /\ adminRes = ""
    /\ rpc = [r \in Reqs |-> IF r \in activas THEN "nuevo" ELSE "fin"]
    /\ header = [r \in Reqs |-> Null]
    /\ usuario = [r \in Reqs |-> Null]
    /\ permitidos = [r \in Reqs |-> {}]
    /\ restantes = [r \in Reqs |-> 0]
    /\ res = [r \in Reqs |-> Null]
    /\ traza = [r \in Reqs |-> <<>>]
    /\ consultas = [r \in Reqs |-> 0]
    /\ decisiones = [r \in Reqs |-> 0]
    /\ primera = [r \in Reqs |-> Null]
    /\ ultima = [r \in Reqs |-> Null]
    /\ vistos = [r \in Reqs |-> {}]

\* login, on the path that signs a token (user found, active, password verified).
Login(usuario_id) ==
    /\ logins < MaxLogins
    /\ logins' = logins + 1
    /\ tokens' = tokens \cup { PayloadDeLogin(usuario_id, RolesAsignados(usuario_id)) }
    /\ UNCHANGED <<usuariosRoles, cambios, adminRes, rpc, header, usuario, permitidos, restantes,
                   res, traza, consultas, decisiones, primera, ultima, vistos, saleVars, invVars, admVars>>

\* A request arrives on a route with n role guards, behind autenticarToken or not.
Recibir(r, h, conAuth, n) ==
    /\ rpc[r] = "nuevo"
    /\ header' = [header EXCEPT ![r] = h]
    /\ restantes' = [restantes EXCEPT ![r] = n]
    /\ vistos' = [vistos EXCEPT ![r] = {usuariosRoles}]
    /\ rpc' = [rpc EXCEPT ![r] = IF conAuth THEN "auth" ELSE "guard"]
    /\ UNCHANGED <<usuariosRoles, tokens, logins, cambios, adminRes, usuario, permitidos,
                   res, traza, consultas, decisiones, primera, ultima, saleVars, invVars, admVars>>

autenticarToken(r) ==
    /\ rpc[r] = "auth"
    /\ IF header[r] = Null
         THEN /\ res' = [res EXCEPT ![r] = Respuesta(401, "TOKEN_NOT_PROVIDED")]
              /\ traza' = [traza EXCEPT ![r] = Append(@, "TOKEN_NOT_PROVIDED")]
              /\ rpc' = [rpc EXCEPT ![r] = TrasResponder(r)]
              /\ UNCHANGED usuario
         ELSE LET v == verificarToken(Val(header[r]))
              IN  IF v.error = ""
                    THEN /\ usuario' = [usuario EXCEPT ![r] = Some(v.payload)]
                         /\ traza' = [traza EXCEPT ![r] = Append(@, "next")]
                         /\ rpc' = [rpc EXCEPT ![r] = "guard"]
                         /\ UNCHANGED res
                    ELSE /\ res' = [res EXCEPT ![r] = Respuesta(403, v.error)]
                         /\ traza' = [traza EXCEPT ![r] = Append(@, v.error)]
                         /\ rpc' = [rpc EXCEPT ![r] = "fin"]
                         /\ UNCHANGED usuario
    /\ UNCHANGED <<usuariosRoles, tokens, logins, cambios, adminRes, header, permitidos, restantes,
                   consultas, decisiones, primera, ultima, vistos, saleVars, invVars, admVars>>

\* The part of the guard from the permission check on, with u the req.usuario it reads.
Decidir(r, u) ==
    LET roles == RolesDe(u)
        tienePermiso == TienePermiso(roles, permitidos'[r])
    IN  /\ usuario' = [usuario EXCEPT ![r] = Some(u)]
        /\ decisiones' = [decisiones EXCEPT ![r] = @ + 1]
        /\ primera' = [primera EXCEPT ![r] = IF @ = Null THEN Some(roles) ELSE @]
        /\ ultima' = [ultima EXCEPT ![r] =
               Some([roles |-> roles, permitidos |-> permitidos'[r], permitido |-> tienePermiso,
                     almacen |-> RolesAsignados(u.id)])]
        /\ IF tienePermiso
             THEN /\ traza' = [traza EXCEPT ![r] = Append(@, "next")]
                  /\ restantes' = [restantes EXCEPT ![r] = @ - 1]
                  /\ rpc' = [rpc EXCEPT ![r] = IF restantes[r] = 1 THEN "handler" ELSE "guard"]
                  /\ UNCHANGED res
             ELSE /\ res' = [res EXCEPT ![r] = Respuesta(403, "INSUFFICIENT_PERMISSIONS")]
                  /\ traza' = [traza EXCEPT ![r] = Append(@, "INSUFFICIENT_PERMISSIONS")]
                  /\ rpc' = [rpc EXCEPT ![r] = TrasResponder(r)]
                  /\ UNCHANGED restantes

\* verificarRol(...rolesPermitidos), up to its await or, with the roles at hand, to its end.
verificarRol(r, rolesPermitidos) ==
    /\ rpc[r] = "guard"
    /\ permitidos' = [permitidos EXCEPT ![r] = rolesPermitidos]
    /\ IF ReqUsuario(r) = Null
         THEN /\ res' = [res EXCEPT ![r] = SinUsuario]
              /\ traza' = [traza EXCEPT ![r] = Append(@, Val(SinUsuario).code)]
              /\ rpc' = [rpc EXCEPT ![r] = TrasResponder(r)]
              /\ UNCHANGED <<usuario, restantes, consultas, decisiones, primera, ultima>>
         ELSE IF ~YaResueltos(Val(ReqUsuario(r)))
           THEN /\ consultas' = [consultas EXCEPT ![r] = @ + 1]
                /\ rpc' = [rpc EXCEPT ![r] = "consulta"]
                /\ UNCHANGED <<usuario, restantes, res, traza, decisiones, primera, ultima>>
           ELSE /\ Decidir(r, Val(ReqUsuario(r)))
                /\ UNCHANGED consultas
    /\ UNCHANGED <<usuariosRoles, tokens, logins, cambios, adminRes, header, vistos, saleVars, invVars, admVars>>

\* UsuarioRol.findAll resolves: the roles are put on the request and the guard goes on.
ConsultaRoles(r) ==
    /\ rpc[r] = "consulta"
    /\ permitidos' = permitidos
    /\ Decidir(r, CachearRoles(Val(usuario[r]), RolesAsignados(Val(usuario[r]).id)))
    /\ UNCHANGED <<usuariosRoles, tokens, logins, cambios, adminRes, header, consultas, vistos,
                   saleVars, invVars, admVars>>

\* UsuarioRol.findAll rejects: the catch block answers 500.
ConsultaFalla(r) ==
    /\ rpc[r] = "consulta"
    /\ res' = [res EXCEPT ![r] = Respuesta(500, "ROLE_VERIFICATION_ERROR")]
    /\ traza' = [traza EXCEPT ![r] = Append(@, "ROLE_VERIFICATION_ERROR")]
    /\ rpc' = [rpc EXCEPT ![r] = "fin"]
    /\ usuario' = [usuario EXCEPT ![r] = Some(UsuarioTrasFallo(Val(usuario[r])))]
    /\ UNCHANGED <<usuariosRoles, tokens, logins, cambios, adminRes, header, permitidos,
                   restantes, consultas, decisiones, primera, ultima, vistos, saleVars, invVars, admVars>>

\* The controller behind the guards answers.
Handler(r) ==
    /\ rpc[r] = "handler"
    /\ res' = [res EXCEPT ![r] = Respuesta(200, "ok")]
    /\ rpc' = [rpc EXCEPT ![r] = "fin"]
    /\ UNCHANGED <<usuariosRoles, tokens, logins, cambios, adminRes, header, usuario, permitidos,
                   restantes, traza, consultas, decisiones, primera, ultima, vistos, saleVars, invVars, admVars>>

\* A role management call returns: its outcome, and what the requests in progress
\* could since read from the store.
Administrar(almacen, outcome) ==
    /\ cambios < MaxCambios
    /\ cambios' = cambios + 1
    /\ usuariosRoles' = almacen
    /\ adminRes' = outcome
    /\ vistos' = [r \in Reqs |-> IF rpc[r] \in {"nuevo", "fin"} THEN vistos[r]
                                 ELSE vistos[r] \cup {almacen}]
    /\ UNCHANGED <<tokens, logins, rpc, header, usuario, permitidos, restantes, res, traza,
                   consultas, decisiones, primera, ultima, saleVars, invVars, admVars>>

\* The three role management functions as one step each: a call during which no
\* other role management call runs.
asignarRol(usuario_id, rol_id) ==
    IF FilasDelPar(usuariosRoles, usuario_id, rol_id) # {}
      THEN Administrar(usuariosRoles, "El usuario ya tiene este rol asignado")
      ELSE Administrar(usuariosRoles \cup {Fila(usuario_id, rol_id, 0)}, "ok")

removerRol(usuario_id, rol_id) ==
    IF FilasDelPar(usuariosRoles, usuario_id, rol_id) = {}
      THEN Administrar(usuariosRoles, "El usuario no tiene este rol asignado")
      ELSE Administrar(usuariosRoles \ FilasDelPar(usuariosRoles, usuario_id, rol_id), "ok")

sincronizarRoles(usuario_id, roles_ids) ==
    IF usuario_id \notin UsuarioIds
      THEN Administrar(usuariosRoles, "Usuario no encontrado")
      ELSE IF roles_ids \cap RolIds # roles_ids
        THEN Administrar(usuariosRoles, "Uno o mas roles no existen")
        ELSE Administrar((usuariosRoles \ FilasDelUsuario(usuariosRoles, usuario_id)) \cup
                         { Fila(usuario_id, i, 0) : i \in roles_ids }, "ok")

NextAuth ==
    \/ \E u \in UsuarioIds : Login(u)
    \/ \E r \in Reqs :
          \/ \E h \in {Null} \cup { Some(t) : t \in TokensPosibles },
                conAuth \in BOOLEAN, n \in 1..MaxGuards : Recibir(r, h, conAuth, n)
          \/ autenticarToken(r)
          \/ \E rolesPermitidos \in Permitidos : verificarRol(r, rolesPermitidos)
          \/ ConsultaRoles(r)
          \/ ConsultaFalla(r)
          \/ Handler(r)
    \/ \E u \in UsuarioIds, i \in RolIds : asignarRol(u, i)
    \/ \E u \in UsuarioIds, i \in RolIds : removerRol(u, i)
    \/ \E u \in UsuarioIdsPedidos, ids \in SUBSET RolIdsPedidos :
          sincronizarRoles(u, ids)

\* The steps of two requests that carry a verifiable token on a route behind
\* autenticarToken and one guard or more, and the role management calls.
NextDos ==
    \/ \E r \in Reqs :
          \/ \E n \in 1..MaxGuards :
                Recibir(r, Some([firma |-> "valida", expirado |-> FALSE,
                                 payload |-> PayloadSinRoles]), TRUE, n)
          \/ autenticarToken(r)
          \/ \E rolesPermitidos \in Permitidos : verificarRol(r, rolesPermitidos)
          \/ ConsultaRoles(r)
          \/ ConsultaFalla(r)
          \/ Handler(r)
    \/ \E u \in UsuarioIds, i \in RolIds : asignarRol(u, i)
    \/ \E u \in UsuarioIds, i \in RolIds : removerRol(u, i)

----------------------------------------------------------------------------
(* Inventario: pessimistic and optimistic actualizarInventario, transferStock *)

InventarioIds == {1, 2}

\* The Inventario rows the store starts with: one row per product 1 and 2.
Existencias ==
    [i \in InventarioIds |-> [id |-> i, producto_id |-> i, cantidad |-> 5, version |-> 0]]

SinArgumentos ==
    [op |-> "", producto_id |-> 0, id |-> 0, cantidad |-> 0, version |-> 0,
     from_id |-> 0, to_id |-> 0, orden |-> <<>>, tx |-> FALSE]

InitInv ==
    /\ inventario = Existencias
    /\ lockInv = [i \in InventarioIds |-> 0]
    /\ ipc = [p \in Procs |-> "idle"]
    /\ iarg = [p \in Procs |-> SinArgumentos]
    /\ ileido = [p \in Procs |-> Null]
    /\ ipend = [p \in Procs |-> Null]
    /\ ires = [p \in Procs |-> Pendiente]

\* where: { producto_id }: the id of the row of that product, 0 when there is none.
FilaDeProducto(producto_id) ==
    IF \E i \in InventarioIds : inventario[i].producto_id = producto_id
      THEN CHOOSE i \in InventarioIds : inventario[i].producto_id = producto_id
      ELSE 0

\* Mutant of InvPuedeBloquear: the row is read without a lock.
InvSinBloqueo(p, i) == TRUE

\* lock: transaction.LOCK.UPDATE (SELECT ... FOR UPDATE): the statement returns once no
\* other transaction holds the row.
InvPuedeBloquear(p, i) == lockInv[i] \in {0, p}

\* The row locks p's transaction holds are released when it ends.
InvLiberar(p) == [i \in InventarioIds |-> IF lockInv[i] = p THEN 0 ELSE lockInv[i]]

\* actualizarInventario(producto_id, cantidad), pessimistic: sequelize.transaction().
actualizarInventario(p, producto_id, cantidad) ==
    /\ ipc[p] = "idle"
    /\ iarg' = [iarg EXCEPT ![p] = [SinArgumentos EXCEPT !.op = "pesimista",
                                        !.producto_id = producto_id, !.cantidad = cantidad]]
    /\ ipc' = [ipc EXCEPT ![p] = "findOne"]
    /\ UNCHANGED <<inventario, lockInv, ileido, ipend, ires, saleVars, authVars, admVars>>

\* Inventario.findOne under the row lock, the two checks and the decrement of the
\* instance, up to the await of save.
InventarioFindOne(p) ==
    /\ ipc[p] = "findOne"
    /\ LET i == FilaDeProducto(iarg[p].producto_id)
       IN  IF i = 0
             THEN /\ ires' = [ires EXCEPT ![p] = Fallo("Inventario no encontrado", 0)]
                  /\ ipc' = [ipc EXCEPT ![p] = "rollback"]
                  /\ UNCHANGED <<lockInv, ileido>>
             ELSE /\ InvPuedeBloquear(p, i)
                  /\ lockInv' = [lockInv EXCEPT ![i] = p]
                  /\ IF inventario[i].cantidad < iarg[p].cantidad
                       THEN /\ ires' = [ires EXCEPT ![p] = Fallo("Stock insuficiente", 0)]
                            /\ ileido' = [ileido EXCEPT ![p] = Some(inventario[i])]
                            /\ ipc' = [ipc EXCEPT ![p] = "rollback"]
                       ELSE /\ ileido' = [ileido EXCEPT ![p] =
                                   Some([inventario[i] EXCEPT !.cantidad = @ - iarg[p].cantidad])]
                            /\ ipc' = [ipc EXCEPT ![p] = "save"]
                            /\ UNCHANGED ires
    /\ UNCHANGED <<inventario, iarg, ipend, saleVars, authVars, admVars>>

\* inventario.save({ transaction })
InventarioSave(p) ==
    /\ ipc[p] = "save"
    /\ ipend' = [ipend EXCEPT ![p] = ileido[p]]
    /\ ipc' = [ipc EXCEPT ![p] = "commit"]
    /\ UNCHANGED <<inventario, lockInv, iarg, ileido, ires, saleVars, authVars, admVars>>

\* transaction.commit(); return inventario
InventarioCommit(p) ==
    /\ ipc[p] = "commit"
    /\ inventario' = [inventario EXCEPT ![Val(ipend[p]).id] = Val(ipend[p])]
    /\ ipend' = [ipend EXCEPT ![p] = Null]
    /\ lockInv' = InvLiberar(p)
    /\ ires' = [ires EXCEPT ![p] = Exito]
    /\ ipc' = [ipc EXCEPT ![p] = "done"]
    /\ UNCHANGED <<iarg, ileido, saleVars, authVars, admVars>>

\* An awaited store call of the pessimistic function rejects (a wait for the row lock
\* ends at the store's lock wait timeout): the catch block takes over.
InventarioStoreError(p) ==
    /\ ipc[p] \in {"findOne", "save", "commit"}
    /\ ires' = [ires EXCEPT ![p] = Fallo("StoreError", 0)]
    /\ ipc' = [ipc EXCEPT ![p] = "rollback"]
    /\ UNCHANGED <<inventario, lockInv, iarg, ileido, ipend, saleVars, authVars, admVars>>

\* catch: transaction.rollback(); throw error
InventarioRollback(p) ==
    /\ ipc[p] = "rollback"
    /\ ipend' = [ipend EXCEPT ![p] = Null]
    /\ lockInv' = InvLiberar(p)
    /\ ipc' = [ipc EXCEPT ![p] = "done"]
    /\ UNCHANGED <<inventario, iarg, ileido, ires, saleVars, authVars, admVars>>

\* Mutant of CoincideVersion: the update is applied whatever the stored version.
CoincideSiempre(fila, version) == TRUE

\* where: { id, version }
CoincideVersion(fila, version) == fila.version = version

\* actualizarInventario(id, cantidad, version), optimistic: the call is made.
actualizarInventarioOptimista(p, id, cantidad, version) ==
    /\ ipc[p] = "idle"
    /\ iarg' = [iarg EXCEPT ![p] = [SinArgumentos EXCEPT !.op = "optimista", !.id = id,
                                        !.cantidad = cantidad, !.version = version]]
    /\ ipc' = [ipc EXCEPT ![p] = "update"]
    /\ UNCHANGED <<inventario, lockInv, ileido, ipend, ires, saleVars, authVars, admVars>>

\* Inventario.update({ cantidad, version: version + 1 }, { where: { id, version } }) as
\* the store executes it, one statement, and the test of the number of rows updated.
InventarioUpdate(p) ==
    /\ ipc[p] = "update"
    /\ LET a == iarg[p]
       IN  IF a.id \in InventarioIds /\ CoincideVersion(inventario[a.id], a.version)
             THEN /\ inventario' = [inventario EXCEPT ![a.id].cantidad = a.cantidad,
                                                      ![a.id].version = a.version + 1]
                  /\ ires' = [ires EXCEPT ![p] = Exito]
             ELSE /\ ires' = [ires EXCEPT ![p] =
                         Fallo("Conflicto: el registro fue modificado por otro usuario", 0)]
                  /\ UNCHANGED inventario
    /\ ileido' = [ileido EXCEPT ![p] =
                     IF iarg[p].id \in InventarioIds THEN Some(inventario[iarg[p].id]) ELSE Null]
    /\ ipc' = [ipc EXCEPT ![p] = "done"]
    /\ UNCHANGED <<lockInv, iarg, ipend, saleVars, authVars, admVars>>

\* Inventario.update rejects: the error of the store is the error of the call.
InventarioUpdateFalla(p) ==
    /\ ipc[p] = "update"
    /\ ires' = [ires EXCEPT ![p] = Fallo("StoreError", 0)]
    /\ ipc' = [ipc EXCEPT ![p] = "done"]
    /\ UNCHANGED <<inventario, lockInv, iarg, ileido, ipend, saleVars, authVars, admVars>>

\* Mutant of OrdenDeBloqueo: the rows are locked in the order of the arguments (the
\* first transferStock of the source).
OrdenDeLlegada(from_id, to_id) == <<from_id, to_id>>

\* const [id1, id2] = from_id < to_id ? [from_id, to_id] : [to_id, from_id]
OrdenDeBloqueo(from_id, to_id) ==
    IF from_id < to_id THEN <<from_id, to_id>> ELSE <<to_id, from_id>>

\* transferStock(from_id, to_id, cantidad) is called.  The function passes no
\* transaction to findByPk: with an ambient transaction of the caller (tx) the row
\* locks are held until that transaction ends, without one each lock ends with its
\* statement.
transferStock(p, from_id, to_id, tx) ==
    /\ ipc[p] = "idle"
    /\ iarg' = [iarg EXCEPT ![p] = [SinArgumentos EXCEPT !.op = "transfer",
                                        !.from_id = from_id, !.to_id = to_id,
                                        !.orden = OrdenDeBloqueo(from_id, to_id), !.tx = tx]]
    /\ ipc' = [ipc EXCEPT ![p] = "lock1"]
    /\ UNCHANGED <<inventario, lockInv, ileido, ipend, ires, saleVars, authVars, admVars>>

\* The row the call is about to lock.
FilaPedida(p) == iarg[p].orden[IF ipc[p] = "lock1" THEN 1 ELSE 2]

\* Inventario.findByPk(id, { lock: true }), the first and the second one.
TransferBloquear(p) ==
    /\ ipc[p] \in {"lock1", "lock2"}
    /\ InvPuedeBloquear(p, FilaPedida(p))
    /\ lockInv' = IF iarg[p].tx THEN [lockInv EXCEPT ![FilaPedida(p)] = p] ELSE lockInv
    /\ ipc' = [ipc EXCEPT ![p] = IF ipc[p] = "lock1" THEN "lock2" ELSE "transfer"]
    /\ UNCHANGED <<inventario, iarg, ileido, ipend, ires, saleVars, authVars, admVars>>

\* The function returns and the unit of work it ran in ends: its locks are released.
TransferFin(p) ==
    /\ ipc[p] = "transfer"
    /\ lockInv' = InvLiberar(p)
    /\ ires' = [ires EXCEPT ![p] = Exito]
    /\ ipc' = [ipc EXCEPT ![p] = "done"]
    /\ UNCHANGED <<inventario, iarg, ileido, ipend, saleVars, authVars, admVars>>

\* Requested quantities: within the stock, the whole stock, more than the stock.
CantidadesPedidas == {2, 3, 5, 6}

\* Concurrent calls of the pessimistic actualizarInventario; product 9 has no row.
NextPesimista ==
    \E p \in Procs :
        \/ \E producto_id \in {1, 9}, cantidad \in CantidadesPedidas :
              actualizarInventario(p, producto_id, cantidad)
        \/ InventarioFindOne(p)
        \/ InventarioSave(p)
        \/ InventarioCommit(p)
        \/ InventarioStoreError(p)
        \/ InventarioRollback(p)

\* Concurrent calls of the optimistic actualizarInventario; row 9 does not exist.
NextOptimista ==
    \E p \in Procs :
        \/ \E id \in {1, 9}, cantidad \in {3, 8}, version \in {0, 1} :
              actualizarInventarioOptimista(p, id, cantidad, version)
        \/ InventarioUpdate(p)
        \/ InventarioUpdateFalla(p)

\* Units of work that take row locks, overlapping: transferStock between the two
\* Inventario rows in either direction, and crearDetalleVenta with a one-line batch
\* on order 1 or on order 2, every store call of which resolves.
NextEspera ==
    \E p \in Procs :
        \/ \E from_id \in InventarioIds, to_id \in InventarioIds, tx \in BOOLEAN :
              transferStock(p, from_id, to_id, tx)
        \/ TransferBloquear(p)
        \/ TransferFin(p)
        \/ \E v \in VentaIds : Llamar(p, Lote(<<[LineaBase EXCEPT !.venta_id = v]>>))
        \/ CargarProductos(p)
        \/ ProcesarItem(p)
        \/ BulkCreate(p)
        \/ BuscarVenta(p)
        \/ Reconciliar(p)
        \/ Commit(p)

----------------------------------------------------------------------------
(* Role management, one action per stretch between two awaits *)

SinLlamada == [op |-> "", usuario_id |-> 0, rol_id |-> 0, roles_ids |-> <<>>]

InitAdm ==
    /\ apc = [p \in Procs |-> "idle"]
    /\ aarg = [p \in Procs |-> SinLlamada]
    /\ aborradas = [p \in Procs |-> {}]
    /\ acreadas = [p \in Procs |-> {}]
    /\ ares = [p \in Procs |-> Pendiente]

\* The auth variables a role management step leaves alone: all but the table.
authResto == <<tokens, logins, cambios, adminRes, rpc, header, usuario, permitidos,
               restantes, res, traza, consultas, decisiones, primera, ultima, vistos>>

\* The rows other open transactions have deleted or inserted and not yet committed:
\* a statement that touches one of them waits for that transaction to end.
FilasAjenas(p) == UNION { aborradas[q] \cup acreadas[q] : q \in Procs \ {p} }

\* Mutant of RestriccionUnica: the table has no unique key on the pair.
SinRestriccion(almacen, usuario_id, rol_id) == TRUE

\* UNIQUE KEY unique_usuario_rol (usuario_id, rol_id): the insert of a pair is accepted
\* when the table holds no row of that pair.
RestriccionUnica(almacen, usuario_id, rol_id) == FilasDelPar(almacen, usuario_id, rol_id) = {}

\* The transaction handle the destroy of sincronizarRoles is issued under.
TxDestroy(t) == t

\* asignarRol(usuario_id, rol_id) is called.
LlamarAsignar(p, usuario_id, rol_id) ==
    /\ apc[p] = "idle"
    /\ aarg' = [aarg EXCEPT ![p] = [SinLlamada EXCEPT !.op = "asignarRol",
                                        !.usuario_id = usuario_id, !.rol_id = rol_id]]
    /\ apc' = [apc EXCEPT ![p] = "findOne"]
    /\ UNCHANGED <<usuariosRoles, aborradas, acreadas, ares, authResto, saleVars, invVars>>

\* const existe = await UsuarioRol.findOne(...); if (existe) throw
AsignarFindOne(p) ==
    /\ apc[p] = "findOne"
    /\ IF FilasDelPar(usuariosRoles, aarg[p].usuario_id, aarg[p].rol_id) # {}
         THEN /\ ares' = [ares EXCEPT ![p] = Fallo("El usuario ya tiene este rol asignado", 0)]
              /\ apc' = [apc EXCEPT ![p] = "done"]
         ELSE /\ apc' = [apc EXCEPT ![p] = "create"]
              /\ UNCHANGED ares
    /\ UNCHANGED <<usuariosRoles, aarg, aborradas, acreadas, authResto, saleVars, invVars>>

\* return await UsuarioRol.create({ usuario_id, rol_id }): one INSERT, committed at once,
\* that the unique key accepts or rejects.
AsignarCreate(p) ==
    /\ apc[p] = "create"
    /\ FilasDelPar(FilasAjenas(p), aarg[p].usuario_id, aarg[p].rol_id) = {}
    /\ IF RestriccionUnica(usuariosRoles, aarg[p].usuario_id, aarg[p].rol_id)
         THEN /\ usuariosRoles' = usuariosRoles \cup {Fila(aarg[p].usuario_id, aarg[p].rol_id, p)}
              /\ ares' = [ares EXCEPT ![p] = Exito]
         ELSE /\ ares' = [ares EXCEPT ![p] = Fallo("UniqueConstraintError", 0)]
              /\ UNCHANGED usuariosRoles
    /\ apc' = [apc EXCEPT ![p] = "done"]
    /\ UNCHANGED <<aarg, aborradas, acreadas, authResto, saleVars, invVars>>

\* removerRol(usuario_id, rol_id) is called.
LlamarRemover(p, usuario_id, rol_id) ==
    /\ apc[p] = "idle"
    /\ aarg' = [aarg EXCEPT ![p] = [SinLlamada EXCEPT !.op = "removerRol",
                                        !.usuario_id = usuario_id, !.rol_id = rol_id]]
    /\ apc' = [apc EXCEPT ![p] = "destroy"]
    /\ UNCHANGED <<usuariosRoles, aborradas, acreadas, ares, authResto, saleVars, invVars>>

\* const deleted = await UsuarioRol.destroy(...); if (deleted === 0) throw
RemoverDestroy(p) ==
    /\ apc[p] = "destroy"
    /\ LET filas == FilasDelPar(usuariosRoles, aarg[p].usuario_id, aarg[p].rol_id)
       IN  /\ FilasDelPar(FilasAjenas(p), aarg[p].usuario_id, aarg[p].rol_id) = {}
           /\ usuariosRoles' = usuariosRoles \ filas
           /\ ares' = [ares EXCEPT ![p] =
                  IF filas = {} THEN Fallo("El usuario no tiene este rol asignado", 0)
                  ELSE Exito]
    /\ apc' = [apc EXCEPT ![p] = "done"]
    /\ UNCHANGED <<aarg, aborradas, acreadas, authResto, saleVars, invVars>>

\* sincronizarRoles(usuario_id, roles_ids) is called: sequelize.transaction().
LlamarSincronizar(p, usuario_id, roles_ids) ==
    /\ apc[p] = "idle"
    /\ aarg' = [aarg EXCEPT ![p] = [SinLlamada EXCEPT !.op = "sincronizarRoles",
                                        !.usuario_id = usuario_id, !.roles_ids = roles_ids]]
    /\ apc' = [apc EXCEPT ![p] = "usuario"]
    /\ UNCHANGED <<usuariosRoles, aborradas, acreadas, ares, authResto, saleVars, invVars>>

\* Usuario.findByPk; if (!usuario) throw
SincronizarUsuario(p) ==
    /\ apc[p] = "usuario"
    /\ IF aarg[p].usuario_id \notin UsuarioIds
         THEN /\ ares' = [ares EXCEPT ![p] = Fallo("Usuario no encontrado", 0)]
              /\ apc' = [apc EXCEPT ![p] = "rollback"]
         ELSE /\ apc' = [apc EXCEPT ![p] = "roles"]
              /\ UNCHANGED ares
    /\ UNCHANGED <<usuariosRoles, aarg, aborradas, acreadas, authResto, saleVars, invVars>>

\* Rol.findAll({ where: { id: roles_ids } }): the roles whose id is in the array.
RolesEncontrados(roles_ids) == { roles_ids[k] : k \in 1..Len(roles_ids) } \cap RolIds

\* Rol.findAll; if (roles.length !== roles_ids.length) throw
SincronizarRoles(p) ==
    /\ apc[p] = "roles"
    /\ IF Cardinality(RolesEncontrados(aarg[p].roles_ids)) # Len(aarg[p].roles_ids)
         THEN /\ ares' = [ares EXCEPT ![p] = Fallo("Uno o mas roles no existen", 0)]
              /\ apc' = [apc EXCEPT ![p] = "rollback"]
         ELSE /\ apc' = [apc EXCEPT ![p] = "destroyAll"]
              /\ UNCHANGED ares
    /\ UNCHANGED <<usuariosRoles, aarg, aborradas, acreadas, authResto, saleVars, invVars>>

\* UsuarioRol.destroy({ where: { usuario_id }, transaction }): the rows are deleted
\* under the transaction (and stay locked by it), or at once when none is passed.
SincronizarDestroy(p) ==
    /\ apc[p] = "destroyAll"
    /\ LET filas == FilasDelUsuario(usuariosRoles, aarg[p].usuario_id)
       IN  /\ FilasDelUsuario(FilasAjenas(p), aarg[p].usuario_id) = {}
           /\ IF TxDestroy(p) = p
                THEN /\ aborradas' = [aborradas EXCEPT ![p] = filas]
                     /\ UNCHANGED usuariosRoles
                ELSE /\ usuariosRoles' = usuariosRoles \ filas
                     /\ UNCHANGED aborradas
    /\ apc' = [apc EXCEPT ![p] = "bulkCreate"]
    /\ UNCHANGED <<aarg, acreadas, ares, authResto, saleVars, invVars>>

\* roles_ids.map(rol_id => ({ usuario_id, rol_id }))
NuevasAsignaciones(p) ==
    { Fila(aarg[p].usuario_id, aarg[p].roles_ids[k], p) : k \in 1..Len(aarg[p].roles_ids) }

\* UsuarioRol.bulkCreate(nuevasAsignaciones, { transaction }): the rows this
\* transaction deleted are out of the way of the unique key.
SincronizarBulkCreate(p) ==
    /\ apc[p] = "bulkCreate"
    /\ \A x \in NuevasAsignaciones(p) : FilasDelPar(FilasAjenas(p), x.usuario_id, x.rol_id) = {}
    /\ IF \A x \in NuevasAsignaciones(p) :
             RestriccionUnica(usuariosRoles \ aborradas[p], x.usuario_id, x.rol_id)
         THEN /\ acreadas' = [acreadas EXCEPT ![p] = NuevasAsignaciones(p)]
              /\ apc' = [apc EXCEPT ![p] = "commit"]
              /\ UNCHANGED ares
         ELSE /\ ares' = [ares EXCEPT ![p] = Fallo("UniqueConstraintError", 0)]
              /\ apc' = [apc EXCEPT ![p] = "rollback"]
              /\ UNCHANGED acreadas
    /\ UNCHANGED <<usuariosRoles, aarg, aborradas, authResto, saleVars, invVars>>

\* transaction.commit(); return created
SincronizarCommit(p) ==
    /\ apc[p] = "commit"
    /\ usuariosRoles' = (usuariosRoles \ aborradas[p]) \cup acreadas[p]
    /\ aborradas' = [aborradas EXCEPT ![p] = {}]
    /\ acreadas' = [acreadas EXCEPT ![p] = {}]
    /\ ares' = [ares EXCEPT ![p] = Exito]
    /\ apc' = [apc EXCEPT ![p] = "done"]
    /\ UNCHANGED <<aarg, authResto, saleVars, invVars>>

\* An awaited store call of sincronizarRoles rejects: the catch block takes over.
SincronizarStoreError(p) ==
    /\ apc[p] \in {"usuario", "roles", "destroyAll", "bulkCreate", "commit"}
    /\ ares' = [ares EXCEPT ![p] = Fallo("StoreError", 0)]
    /\ apc' = [apc EXCEPT ![p] = "rollback"]
    /\ UNCHANGED <<usuariosRoles, aarg, aborradas, acreadas, authResto, saleVars, invVars>>

\* catch: transaction.rollback(); throw error
SincronizarRollback(p) ==
    /\ apc[p] = "rollback"
    /\ aborradas' = [aborradas EXCEPT ![p] = {}]
    /\ acreadas' = [acreadas EXCEPT ![p] = {}]
    /\ apc' = [apc EXCEPT ![p] = "done"]
    /\ UNCHANGED <<usuariosRoles, aarg, ares, authResto, saleVars, invVars>>

\* The arrays of role ids a call may pass: none, one, two, one twice, one unknown.
ListasDeRoles == { <<>>, <<1>>, <<2>>, <<1, 2>>, <<1, 1>>, <<2, 9>> }

\* Overlapping role management calls, one per caller.
NextRoles ==
    \E p \in Procs :
        \/ \E u \in UsuarioIds, i \in RolIds : LlamarAsignar(p, u, i)
        \/ AsignarFindOne(p)
        \/ AsignarCreate(p)
        \/ \E u \in UsuarioIds, i \in RolIds : LlamarRemover(p, u, i)
        \/ RemoverDestroy(p)
        \/ \E u \in UsuarioIdsPedidos, ids \in ListasDeRoles : LlamarSincronizar(p, u, ids)
        \/ SincronizarUsuario(p)
        \/ SincronizarRoles(p)
        \/ SincronizarDestroy(p)
        \/ SincronizarBulkCreate(p)
        \/ SincronizarCommit(p)
        \/ SincronizarStoreError(p)
        \/ SincronizarRollback(p)

----------------------------------------------------------------------------
(* Specifications *)

\* Calls to crearDetalleVenta one at a time, over the wide input domain.
Init == InitSale(FALSE, TotalesIniciales) /\ InitAuth({}) /\ InitInv /\ InitAdm

\* Two overlapping calls to crearDetalleVenta.
InitConc == InitSale(TRUE, TotalesIniciales) /\ InitAuth({}) /\ InitInv /\ InitAdm

\* One request through the middleware chain, with logins and role management.
InitGate == InitSale(FALSE, {0}) /\ InitAuth({1}) /\ InitInv /\ InitAdm

\* Two requests of one subject in the middleware chain at the same time, while roles
\* are assigned and removed.
InitDos == InitSale(FALSE, {0}) /\ InitAuth(Reqs) /\ InitInv /\ InitAdm

\* The store before a run of inventory calls.
InitInventario == InitSale(FALSE, {0}) /\ InitAuth({}) /\ InitInv /\ InitAdm

\* The store before a run of overlapping units of work that take row locks.
InitEspera == InitSale(TRUE, {0}) /\ InitAuth({}) /\ InitInv /\ InitAdm

\* The store before a run of overlapping role management calls.
InitRoles == InitSale(FALSE, {0}) /\ InitAuth({}) /\ InitInv /\ InitAdm

Next == NextSale

Spec == Init /\ [][Next]_vars

SpecConc == InitConc /\ [][Next]_vars

SpecAuth == InitGate /\ [][NextAuth]_vars

SpecDos == InitDos /\ [][NextDos]_vars

\* Overlapping calls of the pessimistic actualizarInventario.
SpecPesimista == InitInventario /\ [][NextPesimista]_vars

\* Overlapping calls of the optimistic actualizarInventario.
SpecOptimista == InitInventario /\ [][NextOptimista]_vars

\* Overlapping transferStock and crearDetalleVenta calls.
SpecEspera == InitEspera /\ [][NextEspera]_vars

\* Overlapping role management calls.
SpecRoles == InitRoles /\ [][NextRoles]_vars

\* Two overlapping calls in which every awaited store call settles: it resolves,
\* or it rejects (a wait for a row lock ends at the store's lock wait timeout).
SpecJusta == InitConc /\ [][NextBloqueo]_vars /\ \A p \in Procs : WF_vars(Paso(p))

----------------------------------------------------------------------------
(* Properties of crearDetalleVenta *)

RECURSIVE SumaSubTotales(_)
SumaSubTotales(rows) ==
    IF rows = {} THEN 0
    ELSE LET r == CHOOSE x \in rows : TRUE
         IN  Val(r.sub_total) + SumaSubTotales(rows \ {r})

Termino(p) == pc[p] = "done"
TerminoOk(p) == pc[p] = "done" /\ resultado[p].estado = "ok"
TerminoMal(p) == pc[p] = "done" /\ resultado[p].estado = "error"
EnCurso(p) == pc[p] \notin {"idle", "done"}
DetallesPor(p) == { r \in detalles : r.por = p }
MovimientosPor(p) == { r \in movimientos : r.por = p }
NadaEscritoPor(p) == DetallesPor(p) = {} /\ MovimientosPor(p) = {}

\* Every line of the call carries the order id the call is for.
LoteDeUnaVenta(p) ==
    \A i \in 1..Len(entrada[p].items) : entrada[p].items[i].venta_id = entrada[p].items[1].venta_id

\* C1: while a call is in progress every row it has written is under its own
\* transaction and the committed Venta totals are those of the call's start; when
\* a call returns with an error, no DetalleVenta or Movimiento row written by it is
\* in the store and the Venta totals are those of the call's start.
C1_Atomicidad ==
    [][ /\ \A p \in Procs : EnCurso(p) =>
              /\ \A r \in DetallesPor(p) : r.tx = p
              /\ \A r \in MovimientosPor(p) : r.tx = p
              /\ ventas = antes[p].ventas
        /\ \A p \in Procs : (~Termino(p) /\ TerminoMal(p)') =>
              /\ NadaEscritoPor(p)'
              /\ ventas' = antes'[p].ventas ]_vars

\* A call that wrote movements and lines and then failed on the order, leaving nothing.
C1_Witness ==
    \E p \in Procs :
        /\ TerminoMal(p)
        /\ resultado[p].mensaje = "Venta no encontrada"
        /\ detalleVentaCreado[p] # {}
        /\ nextMovId > antes[p].movId
        /\ NadaEscritoPor(p)
        /\ ventas = antes[p].ventas

\* The total a call leaves on order v when it runs alone from total t, by the
\* rule of the specification (0 or less than the sum: overwrite).
Aplicar(t, p, v) ==
    IF TerminoOk(p) /\ VentaId(p) = v /\ (t = 0 \/ t < total_subtotales[p])
      THEN total_subtotales[p] ELSE t

\* C2: when two overlapping calls have both returned, each order's total is the
\* one the two calls give when run one after the other in some order.
C2_SinActualizacionPerdida ==
    (\A p \in Procs : Termino(p)) =>
        \A v \in VentaIds :
            \/ ventas[v] = Aplicar(Aplicar(ventas0[v], 1, v), 2, v)
            \/ ventas[v] = Aplicar(Aplicar(ventas0[v], 2, v), 1, v)

\* Two committed calls on order 1 with different sums whose loops interleaved.
C2_Witness ==
    /\ concurrente
    /\ \A p \in Procs : TerminoOk(p) /\ VentaId(p) = 1
    /\ total_subtotales[1] # total_subtotales[2]
    /\ \E a, b, c \in movimientos :
          a.id < b.id /\ b.id < c.id /\ a.por = c.por /\ a.por # b.por
    /\ ventas[1] # ventas0[1]

\* C3: a commit leaves on the order the sum of the batch if the order's total was 0
\* or less than that sum, and the total it had otherwise; no other order changes.
C3_ReglaDeReconciliacion ==
    [][ \A p \in Procs : (pc[p] = "commit" /\ TerminoOk(p)') =>
            LET v == VentaId(p)
                t == total_subtotales[p]
            IN  /\ ventas'[v] = IF ventas[v] = 0 \/ ventas[v] < t THEN t ELSE ventas[v]
                /\ \A w \in VentaIds \ {v} : ventas'[w] = ventas[w] ]_vars

\* A committed posting whose sum is below the order's total, which it leaves alone,
\* next to one that raised the total from its start value.
C3_Witness ==
    \E p, q \in Procs :
        /\ TerminoOk(p) /\ TerminoOk(q) /\ VentaId(p) = 1 /\ VentaId(q) = 1
        /\ ventas0[1] = 7000
        /\ total_subtotales[p] = 5000 /\ antes[p].ventas[1] = 7000
        /\ total_subtotales[q] = 10000
        /\ ventas[1] = 10000

LineasDeVenta(v) == { r \in detalles : r.tx = 0 /\ r.venta_id = v }

\* C4: an order with at least one posted line has a total that is at least the
\* sum of the subtotals of the lines posted to it (calls whose lines all carry
\* the call's order id).
C4_TotalCubreLineas ==
    (\A p \in Procs : LoteDeUnaVenta(p)) =>
        \A v \in VentaIds :
            LineasDeVenta(v) # {} => ventas[v] >= SumaSubTotales(LineasDeVenta(v))

\* C5: of two committed calls with the same input on one order, the later one
\* creates movements and lines of its own and leaves the order's total larger
\* than the earlier one left it.
C5_NoIdempotente ==
    \A p, q \in Procs :
        ( /\ p # q /\ TerminoOk(p) /\ TerminoOk(q)
          /\ entrada[p] = entrada[q] /\ LoteDeUnaVenta(p)
          /\ antes[q].movId > antes[p].movId ) =>
            /\ detalleVentaCreado[p] \cap detalleVentaCreado[q] = {}
            /\ Cardinality(MovimientosPor(q)) = Len(entrada[q].items)
            /\ ventas[VentaId(q)] > antes[q].ventas[VentaId(q)]

\* A line of the batch names a product that is not in the store.
TieneProductoAusente(p) ==
    \E i \in 1..Len(entrada[p].items) :
        /\ entrada[p].items[i].producto_id # 0
        /\ entrada[p].items[i].producto_id \notin DOMAIN productos

\* C6: a call whose batch names an absent product never has a row written, and,
\* unless a store call rejects first, returns the unknown-product error for that
\* product.
C6_ProductoAntesDeEscribir ==
    \A p \in Procs : (pc[p] # "idle" /\ TieneProductoAusente(p)) =>
        /\ NadaEscritoPor(p)
        /\ (Termino(p) /\ resultado[p].mensaje \notin {"StoreError", "RollbackError"}) =>
               /\ resultado[p].mensaje = "Producto no encontrado"
               /\ resultado[p].ref \notin DOMAIN productos

\* C7: once bulkCreate has returned, the subtotals of the returned lines are whole
\* cents and add up to the running total used for the order's total.
C7_SumaDeSubtotales ==
    \A p \in Procs : detalleVentaCreado[p] # {} =>
        /\ \A r \in detalleVentaCreado[p] : Val(r.sub_total) % 10 = 0
        /\ total_subtotales[p] % 10 = 0
        /\ SumaSubTotales(detalleVentaCreado[p]) = total_subtotales[p]

\* A committed two-line batch with a price in thousandths: 2 x 1.254 rounds to 2.51.
C7_Witness ==
    \E p \in Procs :
        /\ TerminoOk(p)
        /\ Cardinality(detalleVentaCreado[p]) = 2
        /\ \E r \in detalleVentaCreado[p] : r.precio_unitario = Some(1254) /\ r.sub_total = Some(2510)
        /\ total_subtotales[p] = 12510
        /\ ventas[1] = 12510

\* The calls that end a transaction: a commit that resolved, or a rollback (one
\* that rejects has ended the transaction all the same).
EsCierre(e) == (e.op = "commit" /\ e.ok) \/ e.op = "rollback"
Cierres(p) == SelectSeq(llamadas[p], EsCierre)

\* C14: a call that began a transaction ends it exactly once, with the last store
\* call it makes, and returns; once it has returned it holds no row lock and has
\* no uncommitted row or total; a call whose wait for the order's lock timed out
\* returns that error after a rollback; and every call in progress returns.
C14_CierreUnico ==
    /\ [](\A p \in Procs :
             /\ EnCurso(p) <=> (llamadas[p] # <<>> /\ Cierres(p) = <<>>)
             /\ Termino(p) =>
                    /\ llamadas[p] # <<>> =>
                           /\ Len(Cierres(p)) = 1
                           /\ EsCierre(llamadas[p][Len(llamadas[p])])
                           /\ llamadas[p][1] = Hecho("transaction")
                    /\ \A v \in VentaIds : lockVenta[v] # p
                    /\ ventaPend[p] = Null
                    /\ \A r \in DetallesPor(p) : r.tx = 0
                    /\ \A r \in MovimientosPor(p) : r.tx = 0
                    /\ resultado[p].mensaje = "LockTimeout" =>
                           /\ llamadas[p][Len(llamadas[p])].op = "rollback"
                           /\ NadaEscritoPor(p))
    /\ \A p \in Procs : EnCurso(p) ~> Termino(p)

\* A call waited for the lock on order 1 while the other call held it, timed out,
\* rolled back and returned the timeout; the holder committed.
C14_Witness ==
    \E p, q \in Procs :
        /\ Termino(p) /\ resultado[p] = Fallo("LockTimeout", 0)
        /\ llamadas[p][Len(llamadas[p]) - 1] = Rechazado("Venta.findOne")
        /\ llamadas[p][Len(llamadas[p])] = Hecho("rollback")
        /\ NadaEscritoPor(p) /\ lockVenta[1] = 0
        /\ TerminoOk(q) /\ VentaId(q) = 1 /\ VentaId(p) = 1

\* C13: a call reads an order's total only while no other call holds the lock on
\* that order, taking the lock as it reads; it writes the total only under its
\* own lock; the lock is given up only by the holder's commit or rollback; and a
\* call at the lock step whose order no other call has locked can read at once,
\* whatever other orders are locked.
C13_SerializadoPorVenta ==
    /\ [][ \A q \in Procs :
              /\ ventaLeida'[q] # ventaLeida[q] =>
                     /\ lockVenta[ventaLeida'[q][1]] \in {0, q}
                     /\ lockVenta'[ventaLeida'[q][1]] = q
                     /\ ventaLeida'[q][2] = ventas[ventaLeida'[q][1]]
              /\ (ventaPend'[q] # ventaPend[q] /\ ventaPend'[q] # Null) =>
                     lockVenta[ventaPend'[q][1]] = q
              /\ \A v \in VentaIds :
                     /\ (lockVenta[v] = q /\ ventas'[v] # ventas[v]) =>
                            pc[q] = "commit" /\ pc'[q] = "done"
                     /\ (lockVenta[v] # q /\ ventas'[v] # ventas[v]) =>
                            \E r \in Procs : lockVenta[v] = r
                     /\ (lockVenta[v] = q /\ lockVenta'[v] # q) =>
                            /\ pc[q] \in {"commit", "rollback"} /\ pc'[q] = "done"
                            /\ lockVenta'[v] = 0 ]_vars
    /\ [](\A p \in Procs :
             (pc[p] = "lock" /\ VentaId(p) \in VentaIds /\ lockVenta[VentaId(p)] \in {0, p}) =>
                 ENABLED BuscarVenta(p))

\* One call holds the lock on order 1 with its new total written and not yet
\* committed, while the other call, its lines inserted, waits to read order 1.
C13_Witness ==
    \E p, q \in Procs :
        /\ p # q /\ concurrente
        /\ lockVenta[1] = p /\ pc[p] = "commit" /\ ventaPend[p] # Null
        /\ pc[q] = "lock" /\ VentaId(q) = 1 /\ detalleVentaCreado[q] # {}
        /\ ~ENABLED BuscarVenta(q)

\* C15: a call fails inside its transaction only through the catch block, whose
\* last store call is the rollback, and the error it returns is the error the
\* catch block caught, whichever step raised it.
C15_ErrorSinCambios ==
    [][ \A p \in Procs :
          /\ (pc[p] # "rollback" /\ pc'[p] = "rollback") => resultado'[p].estado = "error"
          /\ (EnCurso(p) /\ TerminoMal(p)') =>
                 /\ pc[p] = "rollback"
                 /\ llamadas'[p][Len(llamadas'[p])].op = "rollback"
                 /\ resultado'[p] = resultado[p] ]_vars

\* C16: a call whose argument is not an array, or is an empty array, has returned
\* the empty-batch error without a single store call: no transaction begun, no
\* product or order read, no row lock, no row written.
C16_LoteVacio ==
    \A p \in Procs :
        (pc[p] # "idle" /\ (~entrada[p].esArray \/ Len(entrada[p].items) = 0)) =>
            /\ Termino(p)
            /\ resultado[p] = Fallo("detalleVentaData debe ser un array no vacio", 0)
            /\ llamadas[p] = <<>>
            /\ productoMap[p] = <<>> /\ ventaLeida[p] = Null
            /\ \A v \in VentaIds : lockVenta[v] # p
            /\ NadaEscritoPor(p) /\ detalleVentaCreado[p] = {}

\* A call with an empty array was rejected, and the store is as it was.
C16_Witness ==
    \E p \in Procs :
        /\ entrada[p] = Lote(<<>>)
        /\ TerminoMal(p) /\ llamadas[p] = <<>>
        /\ ventas = ventas0 /\ nextMovId = 1

\* A line with no product id, or whose quantity is not a number above 0.
LineaInvalida(item) ==
    item.producto_id = 0 \/ item.cantidad \in CantidadesTexto \/ ~(item.cantidad > 0)

\* The index of the first invalid line of the batch p was called with, 0 if none.
PrimeraInvalida(p) ==
    LET malas == { i \in 1..Len(entrada[p].items) : LineaInvalida(entrada[p].items[i]) }
    IN  IF malas = {} THEN 0 ELSE CHOOSE i \in malas : \A j \in malas : i <= j

LlamadasDe(p, op) == SelectSeq(llamadas[p], LAMBDA e : e.op = op)

\* C17: the lines that have a movement are a prefix of the batch, with movement
\* ids in input order; and when line k is the first invalid line (the lines
\* before it naming known products), crearMovimiento is called for the k - 1
\* lines before it only, the loop never passes line k, bulkCreate is never
\* called, and the call, unless a store call rejects before line k, returns the
\* validation error of line k.
C17_PrimeraLineaInvalida ==
    \A p \in Procs : (pc[p] # "idle" /\ entrada[p].esArray) =>
        /\ \A i, j \in 1..Len(Items(p)) :
               (i < j /\ Items(p)[j].movimiento_id # Null) =>
                   /\ Items(p)[i].movimiento_id # Null
                   /\ Val(Items(p)[i].movimiento_id) < Val(Items(p)[j].movimiento_id)
        /\ LET k == PrimeraInvalida(p)
           IN  (k > 0 /\ \A i \in 1..(k - 1) : entrada[p].items[i].producto_id \in DOMAIN productos) =>
                   /\ Len(LlamadasDe(p, "crearMovimiento")) <= k - 1
                   /\ idx[p] <= k
                   /\ LlamadasDe(p, "DetalleVenta.bulkCreate") = <<>>
                   /\ ~TerminoOk(p)
                   /\ (Termino(p) /\ Len(LlamadasDe(p, "crearMovimiento")) = k - 1
                          /\ \A i \in 1..Len(llamadas[p]) :
                                 llamadas[p][i].ok \/ llamadas[p][i].op = "rollback") =>
                          /\ resultado[p].estado = "error"
                          /\ resultado[p].mensaje \in
                                 { IF entrada[p].items[k].producto_id = 0
                                     THEN "producto_id es obligatorio"
                                     ELSE "cantidad debe ser > 0", "RollbackError" }

\* s is x rounded to whole cents.
EsRedondeo(s, x) == s % 10 = 0 /\ x - 5 < s /\ s <= x + 5

\* C18: every processed line has as unit price the caller's when the caller gave
\* one (0 included) and the product's list price otherwise, and as subtotal the
\* caller's rounded to cents when the caller gave one and unit price x quantity
\* rounded to cents otherwise; the rows bulkCreate returns carry these values.
C18_CamposDerivados ==
    \A p \in Procs :
        /\ \A i \in 1..Len(Items(p)) : Items(p)[i].movimiento_id # Null =>
               LET dado == entrada[p].items[i]
                   linea == Items(p)[i]
               IN  /\ linea.precio_unitario =
                          IF dado.precio_unitario = Null
                            THEN Some(productos[dado.producto_id].precio_minorista)
                            ELSE dado.precio_unitario
                   /\ linea.sub_total # Null
                   /\ EsRedondeo(Val(linea.sub_total),
                          IF dado.sub_total = Null
                            THEN Val(linea.precio_unitario) * dado.cantidad
                            ELSE Val(dado.sub_total))
        /\ \A r \in detalleVentaCreado[p] : \E i \in 1..Len(Items(p)) :
               /\ r.movimiento_id = Items(p)[i].movimiento_id
               /\ r.precio_unitario = Items(p)[i].precio_unitario
               /\ r.sub_total = Items(p)[i].sub_total

\* A committed two-line batch: one line given the price 0 has subtotal 0, the
\* other has the list price 5.00 and subtotal 10.00.
C18_Witness ==
    \E p \in Procs :
        /\ TerminoOk(p)
        /\ \E i \in 1..Len(entrada[p].items) : entrada[p].items[i].precio_unitario = Some(0)
        /\ \E r \in detalleVentaCreado[p] : r.precio_unitario = Some(0) /\ r.sub_total = Some(0)
        /\ \E r \in detalleVentaCreado[p] : r.precio_unitario = Some(5000) /\ r.sub_total = Some(10000)
        /\ total_subtotales[p] = 10000

\* p's call has inserted its lines and has not failed since.
LineasInsertadas(p) == pc[p] \in {"lock", "save", "commit"} \/ TerminoOk(p)

\* C19: once a call of n lines has inserted its lines, and when it has committed,
\* it has created n lines and n movements: its store calls were the n
\* crearMovimiento and then bulkCreate; each line carries the id of a movement
\* of its own call, no two lines the same one, that is an exit with the line's
\* product, warehouse, quantity and unit price and is under the same transaction
\* as the line.  No step changes a movement other than by committing or rolling
\* back the transaction it was created under, and none reuses an id.
C19_UnMovimientoPorLinea ==
    /\ [](\A p \in Procs : LineasInsertadas(p) =>
             LET n == Len(entrada[p].items)
                 filas == { r \in detalles : r.por = p }
             IN  /\ { [r EXCEPT !.tx = 0] : r \in filas } =
                        { [r EXCEPT !.tx = 0] : r \in detalleVentaCreado[p] }
                 /\ Cardinality(filas) = n
                 /\ Cardinality(MovimientosPor(p)) = n
                 /\ Cardinality({ r.movimiento_id : r \in filas }) = n
                 /\ \A i \in 1..n : llamadas[p][2 + i] = Hecho("crearMovimiento")
                 /\ llamadas[p][3 + n] = Hecho("DetalleVenta.bulkCreate")
                 /\ Len(LlamadasDe(p, "crearMovimiento")) = n
                 /\ \A r \in filas :
                        /\ r.movimiento_id # Null
                        /\ \E m \in MovimientosPor(p) :
                               /\ m.id = Val(r.movimiento_id)
                               /\ m.tipo = "salida"
                               /\ m.producto_id = r.producto_id
                               /\ m.almacen_id = r.almacen_id
                               /\ m.cantidad = r.cantidad
                               /\ Some(m.precio_unitario) = r.precio_unitario
                               /\ m.venta_id = r.venta_id
                               /\ m.tx = r.tx
                               /\ m.tx = IF Termino(p) THEN 0 ELSE p)
    /\ [][ /\ \A m \in movimientos :
                 \/ m \in movimientos'
                 \/ /\ m.tx # 0 /\ pc[m.tx] = "commit" /\ TerminoOk(m.tx)'
                    /\ [m EXCEPT !.tx = 0] \in movimientos'
                 \/ m.tx # 0 /\ pc[m.tx] = "rollback" /\ Termino(m.tx)'
           /\ \A m \in movimientos' \ movimientos :
                 \/ m.id = nextMovId /\ nextMovId' = nextMovId + 1
                 \/ [m EXCEPT !.tx = m.por] \in movimientos ]_vars

\* The second of two committed calls posted three lines in all with the first:
\* the three movements are there, those of the first call as it left them.
C19_Witness ==
    /\ \A p \in Procs : TerminoOk(p)
    /\ Len(entrada[1].items) = 2 /\ Len(entrada[2].items) = 1
    /\ { m.id : m \in MovimientosPor(1) } = {1, 2}
    /\ { Val(r.movimiento_id) : r \in detalleVentaCreado[2] } = {3}
    /\ Cardinality(movimientos) = 3 /\ Cardinality(detalles) = 3
    /\ \A m \in movimientos : m.tx = 0

\* The batch p was called with names, in its first line, an order that is not in
\* the store.
VentaAusente(p) ==
    /\ pc[p] # "idle" /\ entrada[p].esArray /\ Len(entrada[p].items) > 0
    /\ entrada[p].items[1].venta_id # 0
    /\ entrada[p].items[1].venta_id \notin DOMAIN ventas

\* C20: a call for an order that is not in the store never gets past the lock
\* step: it reads no order, takes no lock, writes no total and does not commit;
\* when its Venta.findOne has answered, the lines and movements were written
\* before it, and, the rollback done, the call returns the unknown-order error
\* for that order id and none of its lines or movements is in the store.
C20_VentaDesconocida ==
    \A p \in Procs : VentaAusente(p) =>
        /\ pc[p] \notin {"save", "commit"} /\ ~TerminoOk(p)
        /\ ventaLeida[p] = Null /\ ventaPend[p] = Null
        /\ \A v \in VentaIds : lockVenta[v] # p
        /\ LlamadasDe(p, "venta.save") = <<>>
        /\ Termino(p) => NadaEscritoPor(p)
        /\ Hecho("Venta.findOne") \in { llamadas[p][i] : i \in 1..Len(llamadas[p]) } =>
               /\ Len(LlamadasDe(p, "crearMovimiento")) = Len(entrada[p].items)
               /\ detalleVentaCreado[p] # {}
               /\ resultado[p].estado = "error"
               /\ pc[p] \in {"rollback", "done"}
               /\ llamadas[p][Len(llamadas[p])] = Hecho("rollback") =>
                      /\ Termino(p)
                      /\ resultado[p] = Fallo("Venta no encontrada", entrada[p].items[1].venta_id)

\* A two-line batch for order 3: two movements and two lines were written, the
\* order was not found, and after the rollback nothing of the call is left.
C20_Witness ==
    \E p \in Procs :
        /\ VentaAusente(p) /\ Len(entrada[p].items) = 2
        /\ llamadas[p][Len(llamadas[p])] = Hecho("rollback")
        /\ llamadas[p][Len(llamadas[p]) - 1] = Hecho("Venta.findOne")
        /\ resultado[p] = Fallo("Venta no encontrada", 3)
        /\ Cardinality(detalleVentaCreado[p]) = 2 /\ nextMovId = 3
        /\ detalles = {} /\ movimientos = {} /\ ventas = ventas0

\* C21: crearDetalleVenta never changes a Producto.  In every state the Producto table
\* is the one the store started with (list price and stock of every product), whatever
\* the calls have done so far, committed or failed; no step of a call changes it; and
\* the only store call a call makes on Producto is the read Producto.findAll.
C21_ProductoIntacto ==
    /\ productos = Catalogo
    /\ \A p \in Procs : \A k \in 1..Len(llamadas[p]) :
           llamadas[p][k].op \in {"transaction", "Producto.findAll", "crearMovimiento",
                                 "DetalleVenta.bulkCreate", "Venta.findOne", "venta.save",
                                 "commit", "rollback"}

\* One call committed a batch with a movement per line and another call failed after
\* it had written a movement: the products are as they were.
C21_Witness ==
    /\ productos = Catalogo
    /\ \E p, q \in Procs :
          /\ TerminoOk(p) /\ MovimientosPor(p) # {}
          /\ TerminoMal(q) /\ LlamadasDe(q, "crearMovimiento") # <<>>
          /\ LlamadasDe(q, "rollback") # <<>>

\* The order a call locks and reconciles: the order id of its first line.
VentaReconciliada(p) == entrada[p].items[1].venta_id

\* C28: in every committed posting every line created and every movement created
\* refers to the one order the call locked and reconciled, and the sum compared
\* with that order's total is the sum of the subtotals of the lines of that order.
C28_UnaSolaVenta ==
    \A p \in Procs :
        (TerminoOk(p) /\ DetallesPor(p) # {}) =>
            /\ \A r \in DetallesPor(p) : r.venta_id = VentaReconciliada(p)
            /\ \A m \in MovimientosPor(p) : m.venta_id = VentaReconciliada(p)
            /\ total_subtotales[p] =
                   SumaSubTotales({ r \in DetallesPor(p) : r.venta_id = VentaReconciliada(p) })

----------------------------------------------------------------------------
(* Properties of the row locks and of the Inventario functions *)

\* transferStock call p waits for a row that transferStock call q holds.
EsperaFila(p, q) ==
    /\ p # q /\ ipc[p] \in {"lock1", "lock2"}
    /\ lockInv[FilaPedida(p)] = q

\* crearDetalleVenta call p waits for the Venta row that call q holds.
EsperaVenta(p, q) == p # q /\ EsperaBloqueo(p) /\ lockVenta[VentaId(p)] = q

\* The rows whose lock unit of work p holds.
FilasDe(p) == { i \in InventarioIds : lockInv[i] = p }
VentasDe(p) == { v \in VentaIds : lockVenta[v] = p }

\* C23: no circular wait.  No two overlapping units of work wait for a row lock of
\* each other; a crearDetalleVenta call holds no Inventario row and at most one Venta
\* row, the one of its order, and holds none while it waits; a transferStock call
\* holds no Venta row, and a row it waits for has an id that is not below the id of
\* any row it holds.
C23_SinEsperaCircular ==
    \A p \in Procs :
        /\ \A q \in Procs : ~(EsperaFila(p, q) /\ EsperaFila(q, p))
        /\ \A q \in Procs : ~(EsperaVenta(p, q) /\ EsperaVenta(q, p))
        /\ VentasDe(p) \subseteq (IF pc[p] \in {"save", "commit"} THEN {VentaId(p)} ELSE {})
        /\ EsperaBloqueo(p) => VentasDe(p) = {}
        /\ ipc[p] \in {"lock1", "lock2"} => \A i \in FilasDe(p) : i <= FilaPedida(p)
        /\ FilasDe(p) # {} => iarg[p].op = "transfer"

\* transferStock(1, 2) holds row 1 and is about to lock row 2 while transferStock(2, 1)
\* waits for row 1, and one crearDetalleVenta call waits for the order the other holds.
C23_Witness ==
    \E p, q \in Procs :
        /\ iarg[p].from_id = 1 /\ iarg[p].to_id = 2 /\ ipc[p] = "lock2" /\ FilasDe(p) = {1}
        /\ iarg[q].from_id = 2 /\ iarg[q].to_id = 1 /\ EsperaFila(q, p)
        /\ \E a, b \in Procs : EsperaVenta(a, b)

\* The pessimistic calls on row i that have committed.
Confirmadas(i) ==
    { p \in Procs : /\ iarg[p].op = "pesimista" /\ ipc[p] = "done" /\ ires[p] = Exito
                    /\ FilaDeProducto(iarg[p].producto_id) = i }

RECURSIVE SumaCantidades(_)
SumaCantidades(ps) ==
    IF ps = {} THEN 0
    ELSE LET p == CHOOSE x \in ps : TRUE
         IN  iarg[p].cantidad + SumaCantidades(ps \ {p})

\* C24: under any interleaving of overlapping pessimistic actualizarInventario calls
\* with positive quantities, the stock of a row is never below zero and is the
\* initial stock less the quantities of the calls that committed on it; a call for a
\* product without a row fails with "Inventario no encontrado", a call that finds
\* less stock than it asks for fails with "Stock insuficiente", and a call that
\* failed has left nothing pending and holds no lock; a call that returned normally
\* found enough stock.
C24_StockPesimista ==
    /\ \A i \in InventarioIds :
          /\ inventario[i].cantidad >= 0
          /\ inventario[i].cantidad = Existencias[i].cantidad - SumaCantidades(Confirmadas(i))
    /\ \A p \in Procs :
          (iarg[p].op = "pesimista" /\ ipc[p] = "done") =>
              /\ ipend[p] = Null /\ FilasDe(p) = {}
              /\ FilaDeProducto(iarg[p].producto_id) = 0 =>
                     ires[p] \in {Fallo("Inventario no encontrado", 0), Fallo("StoreError", 0)}
              /\ ires[p] = Fallo("Inventario no encontrado", 0) =>
                     FilaDeProducto(iarg[p].producto_id) = 0
              /\ ires[p] = Fallo("Stock insuficiente", 0) =>
                     Val(ileido[p]).cantidad < iarg[p].cantidad
              /\ ires[p] = Exito => Val(ileido[p]).cantidad >= 0

\* Two calls for 3 units each of product 1 overlapped: one waited for the row lock of
\* the other; the first committed, the second then found 2 units and failed.
C24_Witness ==
    \E p, q \in Procs :
        /\ p # q /\ ipc[p] = "done" /\ ipc[q] = "done"
        /\ iarg[p] = [SinArgumentos EXCEPT !.op = "pesimista", !.producto_id = 1, !.cantidad = 3]
        /\ iarg[q] = iarg[p]
        /\ ires[p] = Exito /\ ires[q] = Fallo("Stock insuficiente", 0)
        /\ Val(ileido[q]).cantidad = 2 /\ inventario[1].cantidad = 2

\* The state of the store and of the other call is left alone by a step.
RestoIgual(id) ==
    \A i \in InventarioIds : i # id => inventario'[i] = inventario[i]

\* C25: an optimistic update is applied exactly when the stored version equals the
\* supplied one; applied, it sets the quantity and raises the version by one;
\* otherwise the call fails with the conflict error and the row is unchanged; and of
\* two calls that carry the same version for one row at most one is applied.
C25_VersionOptimista ==
    /\ [][\A p \in Procs :
            (ipc[p] = "update" /\ ipc'[p] = "done" /\ ires'[p] # Fallo("StoreError", 0)) =>
                LET a == iarg[p]
                IN  IF a.id \in InventarioIds /\ inventario[a.id].version = a.version
                      THEN /\ ires'[p] = Exito
                           /\ inventario'[a.id] = [inventario[a.id] EXCEPT
                                  !.cantidad = a.cantidad, !.version = a.version + 1]
                           /\ RestoIgual(a.id)
                      ELSE /\ ires'[p] =
                                Fallo("Conflicto: el registro fue modificado por otro usuario", 0)
                           /\ inventario' = inventario
         ]_vars
    /\ [](\A p, q \in Procs :
            ( /\ p # q /\ iarg[p].op = "optimista" /\ iarg[q].op = "optimista"
              /\ iarg[p].id = iarg[q].id /\ iarg[p].version = iarg[q].version ) =>
                ~(ires[p] = Exito /\ ires[q] = Exito))

\* Two calls carried version 0 for row 1: the one for 3 units was applied, the other
\* failed with the conflict error, and the row holds 3 units at version 1.
C25_Witness ==
    \E p, q \in Procs :
        /\ p # q /\ ipc[p] = "done" /\ ipc[q] = "done"
        /\ iarg[p] = [SinArgumentos EXCEPT !.op = "optimista", !.id = 1, !.cantidad = 3]
        /\ iarg[q] = [SinArgumentos EXCEPT !.op = "optimista", !.id = 1, !.cantidad = 8]
        /\ ires[p] = Exito
        /\ ires[q] = Fallo("Conflicto: el registro fue modificado por otro usuario", 0)
        /\ inventario[1] = [id |-> 1, producto_id |-> 1, cantidad |-> 3, version |-> 1]

----------------------------------------------------------------------------
(* Properties of the role management functions *)

\* Caller p takes a step of its role management call.
PasoDe(p) == apc'[p] # apc[p]

\* The role ids of a set of rows.
RolesDeFilas(filas) == { x.rol_id : x \in filas }

ListaComoConjunto(roles_ids) == { roles_ids[k] : k \in 1..Len(roles_ids) }

C27_ParUnico ==
    /\ [](\A x, y \in usuariosRoles :
            (x.usuario_id = y.usuario_id /\ x.rol_id = y.rol_id) => x = y)
    /\ [][\A p \in Procs :
            LET filas == FilasDelPar(usuariosRoles, aarg[p].usuario_id, aarg[p].rol_id)
            IN  /\ (aarg[p].op = "asignarRol" /\ PasoDe(p) /\ apc[p] # "idle") =>
                      IF filas # {}
                        THEN /\ apc'[p] = "done" /\ ares'[p].estado = "error"
                             /\ usuariosRoles' = usuariosRoles
                        ELSE IF apc[p] = "create"
                          THEN /\ ares'[p] = Exito
                               /\ usuariosRoles' = usuariosRoles \cup
                                      {Fila(aarg[p].usuario_id, aarg[p].rol_id, p)}
                          ELSE usuariosRoles' = usuariosRoles /\ ares'[p] = Pendiente
                /\ (aarg[p].op = "removerRol" /\ PasoDe(p) /\ apc[p] # "idle") =>
                      IF filas = {}
                        THEN /\ ares'[p] = Fallo("El usuario no tiene este rol asignado", 0)
                             /\ usuariosRoles' = usuariosRoles
                        ELSE ares'[p] = Exito /\ usuariosRoles' = usuariosRoles \ filas
         ]_vars

\* Two asignarRol calls for the pair (1, 1) both found no row; the create of one was
\* accepted and the create of the other was rejected by the unique key.
C27_Witness ==
    \E p, q \in Procs :
        /\ p # q /\ apc[p] = "done" /\ apc[q] = "done"
        /\ aarg[p] = [SinLlamada EXCEPT !.op = "asignarRol", !.usuario_id = 1, !.rol_id = 1]
        /\ aarg[q] = aarg[p]
        /\ ares[p] = Exito /\ ares[q] = Fallo("UniqueConstraintError", 0)
        /\ usuariosRoles = {Fila(1, 2, 0), Fila(1, 1, p)}

----------------------------------------------------------------------------
(* Properties of the role gate *)

\* C11: a guard that finds no subject on the request answers 401
\* AUTHENTICATION_REQUIRED and ends the request, with no role lookup and no
\* decision; a request with no subject is never in a lookup, never reaches the
\* handler and is never answered 200.
C11_SinSujeto ==
    [][ \A r \in Reqs :
          /\ (rpc[r] = "guard" /\ usuario[r] = Null /\ rpc'[r] # "guard") =>
                 /\ res'[r] = Respuesta(401, "AUTHENTICATION_REQUIRED")
                 /\ rpc'[r] = "fin"
                 /\ usuario'[r] = Null
          /\ usuario'[r] = Null =>
                 /\ consultas'[r] = 0 /\ decisiones'[r] = 0
                 /\ rpc'[r] \notin {"consulta", "handler"}
                 /\ res'[r] # Respuesta(200, "ok") ]_vars

\* A request that carried a token on a route without autenticarToken was stopped
\* by the guard.
C11_Witness ==
    \E r \in Reqs :
        /\ header[r] # Null /\ Val(header[r]).firma = "valida" /\ ~Val(header[r]).expirado
        /\ usuario[r] = Null
        /\ traza[r] = <<"AUTHENTICATION_REQUIRED">>
        /\ res[r] = Respuesta(401, "AUTHENTICATION_REQUIRED")
        /\ rpc[r] = "fin" /\ consultas[r] = 0

\* C12: autenticarToken answers 401 TOKEN_NOT_PROVIDED when there is no token,
\* 403 TOKEN_EXPIRED for a signed token that has expired, 403 TOKEN_INVALID for
\* every other token that does not verify, and passes on only a token that
\* verifies, with its payload as req.usuario.
C12_MapeoDelToken ==
    [][ \A r \in Reqs : (rpc[r] = "auth" /\ rpc'[r] # "auth") =>
          IF header[r] = Null
            THEN /\ res'[r] = Respuesta(401, "TOKEN_NOT_PROVIDED")
                 /\ rpc'[r] = "fin" /\ usuario'[r] = Null
            ELSE LET t == Val(header[r])
                 IN  IF t.firma = "valida" /\ ~t.expirado
                       THEN /\ rpc'[r] = "guard" /\ res'[r] = Null
                            /\ usuario'[r] = Some(t.payload)
                       ELSE /\ rpc'[r] = "fin" /\ usuario'[r] = Null
                            /\ res'[r] = Respuesta(403,
                                   IF t.firma = "valida" /\ t.expirado
                                     THEN "TOKEN_EXPIRED" ELSE "TOKEN_INVALID") ]_vars

\* The positions of a request at which a middleware is about to run or is suspended.
EnMiddleware(r) == rpc[r] \in {"auth", "guard", "consulta"}

\* A step in which a middleware run of request r ends.
TerminaMiddleware(r) ==
    /\ EnMiddleware(r)
    /\ rpc'[r] # "consulta"
    /\ <<rpc[r], res[r], usuario[r], restantes[r], decisiones[r]>> #
       <<rpc'[r], res'[r], usuario'[r], restantes'[r], decisiones'[r]>>

\* C29: every run of autenticarToken and of verificarRol has exactly one outcome.  A
\* step that ends a middleware run records exactly one outcome; the outcome "next"
\* sends no response and hands the request to the next middleware or the controller;
\* any other outcome sends the one response of the request, carrying that code, and
\* ends the request; no outcome is recorded in any other step; and a request's
\* response, once sent, is never sent again.
C29_UnSoloDesenlace ==
    [][\A r \in Reqs :
          /\ TerminaMiddleware(r) => Len(traza'[r]) = Len(traza[r]) + 1
          /\ traza'[r] # traza[r] =>
                /\ TerminaMiddleware(r)
                /\ \E e \in {"next", "TOKEN_NOT_PROVIDED", "TOKEN_INVALID", "TOKEN_EXPIRED",
                              "Unexpected token", "AUTHENTICATION_REQUIRED",
                              "INSUFFICIENT_PERMISSIONS", "ROLE_VERIFICATION_ERROR"} :
                      /\ traza'[r] = Append(traza[r], e)
                      /\ res[r] = Null
                      /\ IF e = "next"
                           THEN res'[r] = Null /\ rpc'[r] \in {"guard", "handler"}
                           ELSE /\ res'[r] # Null /\ Val(res'[r]).code = e
                                /\ rpc'[r] = "fin"
          /\ res[r] # Null => (res'[r] = res[r] /\ rpc'[r] = "fin")
      ]_vars

\* A request went through autenticarToken with the outcome "next" and was refused by
\* its guard after the role lookup: two outcomes, one response.
C29_Witness ==
    \E r \in Reqs :
        /\ traza[r] = <<"next", "INSUFFICIENT_PERMISSIONS">>
        /\ consultas[r] = 1
        /\ res[r] = Respuesta(403, "INSUFFICIENT_PERMISSIONS")
        /\ rpc[r] = "fin"

\* The role lookup of request r has failed in this step: the guard was suspended at
\* the lookup and leaves it without having reached its permission check.
FallaLaConsulta(r) ==
    rpc[r] = "consulta" /\ rpc'[r] # "consulta" /\ decisiones'[r] = decisiones[r]

\* C30: the role gate fails closed.  When the role lookup of a guard fails, the guard
\* answers 500 ROLE_VERIFICATION_ERROR, the request ends there (no next, no controller)
\* and the request carries no cached role set; and a request answered with
\* ROLE_VERIFICATION_ERROR has ended with no role set on it.
C30_FallaCerrada ==
    /\ [][\A r \in Reqs :
            FallaLaConsulta(r) =>
                /\ res[r] = Null /\ res'[r] = Respuesta(500, "ROLE_VERIFICATION_ERROR")
                /\ traza'[r] = Append(traza[r], "ROLE_VERIFICATION_ERROR")
                /\ rpc'[r] = "fin" /\ restantes'[r] = restantes[r]
                /\ usuario'[r] # Null /\ ~YaResueltos(Val(usuario'[r]))
         ]_vars
    /\ [](\A r \in Reqs :
            res[r] = Respuesta(500, "ROLE_VERIFICATION_ERROR") =>
                /\ rpc[r] = "fin" /\ decisiones[r] = 0
                /\ usuario[r] # Null /\ ~YaResueltos(Val(usuario[r])))

\* A request with a valid token that carries no roles went through autenticarToken,
\* its guard started the lookup, and the lookup failed.
C30_Witness ==
    \E r \in Reqs :
        /\ traza[r] = <<"next", "ROLE_VERIFICATION_ERROR">>
        /\ consultas[r] = 1 /\ decisiones[r] = 0
        /\ res[r] = Respuesta(500, "ROLE_VERIFICATION_ERROR")
        /\ usuario[r] = Some(PayloadSinRoles)

\* The role lists request r could have resolved for itself: the roles claim of its
\* own token, and the roles of its subject in a state of the store since it arrived.
RolesPropios(r) ==
    (IF header[r] # Null /\ Val(header[r]).payload.roles # Null
       THEN {Val(Val(header[r]).payload.roles)} ELSE {}) \cup
    { RolesEn(a, Val(header[r]).payload.id) : a \in vistos[r] }

\* C22: the role set resolved for a request belongs to that request only.  The role
\* list on a request, and the one its last permission check used, is one the request
\* resolved for itself (from its own token or from the store while it was in
\* progress); and a request whose token carries no roles has looked the roles up
\* itself before its first permission check, whatever any other request of the same
\* subject has resolved in the meantime.
C22_RolesDeLaPeticion ==
    \A r \in Reqs :
        /\ (usuario[r] # Null /\ YaResueltos(Val(usuario[r]))) =>
               RolesDe(Val(usuario[r])) \in RolesPropios(r)
        /\ ultima[r] # Null => Val(ultima[r]).roles \in RolesPropios(r)
        /\ (decisiones[r] > 0 /\ Val(header[r]).payload.roles = Null) => consultas[r] = 1

\* Two requests of the same subject are past their first permission check, each
\* after a lookup of its own, and they resolved different role lists because a role
\* was assigned between the two lookups.
C22_Witness ==
    \E r, q \in Reqs :
        /\ r # q /\ decisiones[r] > 0 /\ decisiones[q] > 0
        /\ consultas[r] = 1 /\ consultas[q] = 1
        /\ Val(usuario[r]).id = Val(usuario[q]).id
        /\ Val(ultima[r]).roles = {"vendedor"}
        /\ Val(ultima[q]).roles = {"admin", "vendedor"}
        /\ res[r] = Respuesta(403, "INSUFFICIENT_PERMISSIONS") /\ rpc[q] = "guard"

\* C8: a guard lets the request on exactly when the roles on the request and the
\* roles it requires have a role in common, and otherwise ends the request with
\* 403 INSUFFICIENT_PERMISSIONS; requiring admin denies {vendedor} and lets
\* {admin, vendedor} on.
C8_CualquieraDeLosRoles ==
    \A r \in Reqs : ultima[r] # Null =>
        LET d == Val(ultima[r])
        IN  /\ d.permitido <=> (d.roles \cap d.permitidos # {})
            /\ ~d.permitido => /\ rpc[r] = "fin"
                               /\ res[r] = Respuesta(403, "INSUFFICIENT_PERMISSIONS")
            /\ d.permitido => \/ rpc[r] \in {"guard", "handler"}
                              \/ rpc[r] = "fin" /\ res[r] = Respuesta(200, "ok")
            /\ (d.permitidos = {"admin"} /\ d.roles = {"vendedor"}) => ~d.permitido
            /\ (d.permitidos = {"admin"} /\ d.roles = {"admin", "vendedor"}) => d.permitido

\* A subject holding admin and vendedor got through a guard that requires admin.
C8_Witness ==
    \E r \in Reqs :
        /\ ultima[r] # Null
        /\ Val(ultima[r]).permitidos = {"admin"}
        /\ Val(ultima[r]).roles = {"admin", "vendedor"}
        /\ Val(ultima[r]).permitido
        /\ res[r] = Respuesta(200, "ok")

\* C9: the roles a guard decides from are roles the store has held for the
\* subject at some moment since the request arrived, whatever the token carries.
C9_RolesDelAlmacen ==
    \A r \in Reqs : ultima[r] # Null =>
        Val(ultima[r]).roles \in { RolesEn(a, Val(usuario[r]).id) : a \in vistos[r] }

\* C10: the guards of one request look the roles up at most once, and every
\* decision of the request uses the role set its first decision used.
C10_UnaConsultaPorPeticion ==
    \A r \in Reqs :
        /\ consultas[r] <= 1
        /\ ultima[r] # Null => Val(ultima[r]).roles = Val(primera[r])

\* A request whose token carries no roles took two decisions on one lookup, the
\* second one while the store already held other roles for the subject.
C10_Witness ==
    \E r \in Reqs :
        /\ header[r] # Null /\ Val(header[r]).payload.roles = Null
        /\ decisiones[r] = 2
        /\ consultas[r] = 1
        /\ Val(ultima[r]).roles # Val(ultima[r]).almacen

====
